---------------------------- MODULE Spec2Model ----------------------------
(***************************************************************************)
(* Model of the MCP Slack bot repository.  The repository holds several    *)
(* rewritten variants of the same bot:                                     *)
(*   main.py              first bot: own Tool/Server classes, retrying     *)
(*                        run_tool, no allow-list                          *)
(*   utils/server.py      Server of the later bots (HTTP probe, allow-list)*)
(*   utils/tool.py        Tool of the later bots                           *)
(*   utils/slackbot.py    bot with ElicitationHandler (utils/elicitation)  *)
(*   utils/slack_bot.py   simplified bot                                   *)
(*   servers/mcp_client.py  LangChain tool discovery                       *)
(* Each variant is modelled by its own operators; the specifications       *)
(* SpecAllow, SpecRun, SpecStart, SpecMain and Spec exercise them.         *)
(***************************************************************************)
EXTENDS Integers, Sequences, FiniteSets, TLC

VARIABLES
    allowIn,            \* SpecAllow: the inputs of one allow-list decision
    allowOut,           \* SpecAllow: the decision of one discovery path
    rtIn,               \* SpecRun: session and transport behaviour of one run_tool call
    rtOut,              \* SpecRun: what run_tool did (attempts, returned / raised)
    bot,                \* which bot runs: "slackbot" (utils/slackbot.py),
                        \* "slack_bot" (utils/slack_bot.py) or "main" (main.py)
    is_http,            \* Server.is_http of each server
    allowed_tools,      \* Server.allowed_tools of each server ({} when never set)
    srv,                \* each Server's session and transport contexts
    tools,              \* SlackBot.tools
    all_tools,          \* SlackBot.all_tools
    startLog,           \* what the environment did to each server's start()
    phase,              \* "init", "serving", "auth_failed" or "crashed"
    pending_requests,   \* ElicitationHandler.pending_requests
    conversations,      \* SlackBot.conversations
    last,               \* what the last process_message call did
    msgs,               \* number of messages processed so far
    unitIn,             \* the inputs of one operation exercised on its own
    unitOut,            \* what that operation did
    inflight            \* the message handlers that are suspended at an await

allowVars == <<allowIn, allowOut>>

rtVars == <<rtIn, rtOut>>

cfgVars == <<bot, is_http, allowed_tools>>

bootVars == <<srv, tools, all_tools, startLog, phase>>

convVars == <<pending_requests, conversations, last, msgs>>

unitVars == <<unitIn, unitOut, inflight>>

vars == <<allowVars, rtVars, unitVars, cfgVars, bootVars, convVars, unitVars>>

\* The variables of the operations exercised on their own, in a specification
\* that does not use them.
NoUnit == [op |-> "None"]

IdleUnit == unitIn = NoUnit /\ unitOut = NoUnit /\ inflight = << >>

(***************************************************************************)
(* Names used by the servers' tools.                                       *)
(***************************************************************************)
ToolNames == {"a", "b", "c"}

None == "None"

(***************************************************************************)
(* 1. The allow-list predicate on the three tool-discovery paths.          *)
(***************************************************************************)

\* A server entry with or without an allow-list: has = FALSE is the absent key.
AllowConfigs ==
    {[has |-> FALSE, list |-> {}]} \cup {[has |-> TRUE, list |-> l] : l \in SUBSET ToolNames}

\* getattr(self, 'allowed_tools', []) / server_config.get("allowedTools", [])
GetAllowList(cfg) == IF cfg.has THEN cfg.list ELSE {}

\* utils/server.py:123  allowed = not allowed_tools_list or tool_def.name in allowed_tools_list
Server_get_tools_allowed(allowed_tools_list, name) ==
    (allowed_tools_list = {}) \/ (name \in allowed_tools_list)

\* utils/tool.py:15-22  Tool.is_allowed: an explicit override wins, else the
\* configuration's allow-list decides.
Tool_is_allowed(override, config_allowed_tools, name) ==
    IF override # None
    THEN override = "True"
    ELSE (config_allowed_tools = {}) \/ (name \in config_allowed_tools)

\* servers/mcp_client.py:155  if tool_name in allowed_tools
get_mcp_tools_from_server_allowed(allowedTools, name) ==
    name \in allowedTools

DiscoveryPaths == {"Server.get_tools", "Tool.is_allowed", "get_mcp_tools_from_server"}

NoDecision == [path |-> None, allowed |-> FALSE]

InitAllow ==
    /\ allowIn \in [cfg : AllowConfigs, name : ToolNames]
    /\ allowOut = NoDecision

\* The allow-list variables of a specification that does not use them.
IdleAllow ==
    /\ allowIn = [cfg |-> [has |-> FALSE, list |-> {}], name |-> "a"]
    /\ allowOut = NoDecision

ApplyServerGetTools ==
    /\ allowOut = NoDecision
    /\ allowOut' = [path |-> "Server.get_tools",
                    allowed |-> Server_get_tools_allowed(GetAllowList(allowIn.cfg), allowIn.name)]
    /\ UNCHANGED <<allowIn, rtVars, unitVars, cfgVars, bootVars, convVars>>

ApplyToolIsAllowed ==
    /\ allowOut = NoDecision
    /\ allowOut' = [path |-> "Tool.is_allowed",
                    allowed |-> Tool_is_allowed(None, GetAllowList(allowIn.cfg), allowIn.name)]
    /\ UNCHANGED <<allowIn, rtVars, unitVars, cfgVars, bootVars, convVars>>

ApplyMcpClient ==
    /\ allowOut = NoDecision
    /\ allowOut' = [path |-> "get_mcp_tools_from_server",
                    allowed |-> get_mcp_tools_from_server_allowed(GetAllowList(allowIn.cfg), allowIn.name)]
    /\ UNCHANGED <<allowIn, rtVars, unitVars, cfgVars, bootVars, convVars>>


(***************************************************************************)
(* 2. Server.run_tool: one invocation against a transport whose successive *)
(* call_tool calls behave as the script says.                              *)
(*   "ok"        call_tool returns a result, isError = False               *)
(*   "isError"   call_tool returns a result, isError = True                *)
(*   "transient" call_tool raises (connection blip, timeout)               *)
(*   "rejected"  call_tool raises because the arguments were rejected      *)
(***************************************************************************)
Outcomes == {"ok", "empty", "isError", "transient", "rejected"}

Raises(o) == o \in {"transient", "rejected"}

ScriptLen == 3

\* main.py:129  for attempt in range(2)
MainAttempts == 2

NoRun == [impl |-> None, attempts |-> 0, kind |-> None, val |-> [tag |-> None, attempt |-> 0]]

\* main.py:129-137 with every failure retried and none re-raised (the `else: raise`
\* lost): what a run_tool that swallows the last failure would do.
RECURSIVE main_run_tool_loop_swallow(_, _)
main_run_tool_loop_swallow(script, attempt) ==
    IF attempt >= MainAttempts + 1
    THEN [attempts |-> attempt, kind |-> "return", val |-> [tag |-> None, attempt |-> 0]]
    ELSE IF ~Raises(script[attempt + 1])
         THEN [attempts |-> attempt + 1, kind |-> "return",
               val |-> [tag |-> "response", attempt |-> attempt + 1]]
         ELSE main_run_tool_loop_swallow(script, attempt + 1)

\* main.py:129-137: the loop body for `attempt` (0-based).
RECURSIVE main_run_tool_loop(_, _)
main_run_tool_loop(script, attempt) ==
    IF attempt >= MainAttempts
    THEN [attempts |-> attempt, kind |-> "return", val |-> [tag |-> None, attempt |-> 0]]
    ELSE IF ~Raises(script[attempt + 1])
         THEN \* return await self.session.call_tool(name, args)
              [attempts |-> attempt + 1, kind |-> "return",
               val |-> [tag |-> "response", attempt |-> attempt + 1]]
         ELSE IF attempt = 0
              THEN \* only retry once: sleep(1), next attempt
                   main_run_tool_loop(script, attempt + 1)
              ELSE \* raise
                   [attempts |-> attempt + 1, kind |-> "raise",
                    val |-> [tag |-> script[attempt + 1], attempt |-> attempt + 1]]

\* main.py:123-137  Server.run_tool
main_Server_run_tool(session, script) ==
    IF session = None
    THEN [attempts |-> 0, kind |-> "raise", val |-> [tag |-> "RuntimeError", attempt |-> 0]]
    ELSE main_run_tool_loop(script, 0)

\* utils/server.py:148-161  Server.run_tool: one call, every failure becomes a string
Server_run_tool(session, script) ==
    IF session = None
    THEN [attempts |-> 0, kind |-> "return", val |-> [tag |-> "Error: Server not connected", attempt |-> 0]]
    ELSE IF Raises(script[1])
         THEN [attempts |-> 1, kind |-> "return", val |-> [tag |-> "Error: str(e)", attempt |-> 1]]
         ELSE IF script[1] = "isError"
              THEN [attempts |-> 1, kind |-> "return", val |-> [tag |-> "Tool error: content", attempt |-> 1]]
              ELSE [attempts |-> 1, kind |-> "return", val |-> [tag |-> "content", attempt |-> 1]]

WithImpl(impl, r) ==
    [impl |-> impl, attempts |-> r.attempts, kind |-> r.kind, val |-> r.val]

InitRun ==
    /\ rtIn \in [session : {None, "session"}, script : [1..ScriptLen -> Outcomes]]
    /\ rtOut = NoRun

\* The run_tool variables of a specification that does not use them.
IdleRun ==
    /\ rtIn = [session |-> None, script |-> [i \in 1..ScriptLen |-> "ok"]]
    /\ rtOut = NoRun

RunMain ==
    /\ rtOut = NoRun
    /\ rtOut' = WithImpl("main", main_Server_run_tool(rtIn.session, rtIn.script))
    /\ UNCHANGED <<rtIn, unitVars, allowVars, cfgVars, bootVars, convVars>>

RunUtils ==
    /\ rtOut = NoRun
    /\ rtOut' = WithImpl("utils", Server_run_tool(rtIn.session, rtIn.script))
    /\ UNCHANGED <<rtIn, unitVars, allowVars, cfgVars, bootVars, convVars>>


(***************************************************************************)
(* 3. utils/server.py: Server start-up, tool discovery, and the bots'      *)
(* start() loops.                                                          *)
(***************************************************************************)
Servers == {1, 2}

\* The servers in configured order (SlackBot.servers is a list).
ServerOrder == <<1, 2>>

\* What each server's list_tools reports, in order.
Reported == <<(<<"a", "b">>), (<<"b", "c">>)>>

\* utils/server.py:13-22  Server.__init__
NewServer == [session |-> None, http_ctx |-> None, session_ctx |-> None, stdio_ctx |-> None]

\* How the environment answers one start() of an HTTP server.
HttpOutcomes ==
    {"no_url", "probe_fail", "http_enter_fail", "session_enter_fail",
     "init_timeout", "init_error", "ok"}

\* How the environment answers one start() of a stdio server.
StdioOutcomes == {"no_command", "enter_fail", "init_fail", "ok"}

\* utils/server.py:70-80  the finally block of _start_http, session being None
start_http_cleanup(sv, exitFail) ==
    IF sv.session_ctx # None /\ exitFail = "session"
    THEN sv                                   \* __aexit__ raised: except Exception: pass
    ELSE LET s1 == [sv EXCEPT !.session_ctx = None]
         IN  IF s1.http_ctx # None
             THEN IF exitFail = "http" THEN s1 ELSE [s1 EXCEPT !.http_ctx = None]
             ELSE s1

\* One step of an attempt to connect, and whether it went through.
Step(name, ok) == [step |-> name, ok |-> ok]

\* The steps an HTTP attempt takes when its i-th step is the one that fails
\* (failAt = 0: none fails): the steps before it went through, none follows.
ConnectSteps(order, failAt) ==
    [i \in 1..(IF failAt = 0 THEN Len(order) ELSE failAt) |-> Step(order[i], i # failAt)]

\* utils/server.py:43-64, servers/mcp_client.py:36-55  the order of the steps
HttpOrder == << "probe", "http_enter", "session_enter", "initialize" >>

\* _start_http without the reachability probe: the streams and the session
\* are opened whatever the server answers.
Server_start_http_unprobed(sv, outcome, exitFail) ==
    [sv |-> [sv EXCEPT !.http_ctx = "entered", !.session_ctx = "entered",
                       !.session = "session"],
     raised |-> FALSE, probed |-> FALSE, steps |-> ConnectSteps(Tail(HttpOrder), 0)]

\* utils/server.py:30-80  Server._start_http; raised = TRUE is the ValueError,
\* steps are the connection steps that were attempted, in order.
Server_start_http(sv, outcome, exitFail) ==
    CASE outcome = "no_url" ->
            [sv |-> sv, raised |-> TRUE, probed |-> FALSE, steps |-> << >>]
      [] outcome = "probe_fail" ->
            [sv |-> [sv EXCEPT !.session = None], raised |-> FALSE, probed |-> TRUE,
             steps |-> ConnectSteps(HttpOrder, 1)]
      [] outcome = "http_enter_fail" ->
            [sv |-> start_http_cleanup([sv EXCEPT !.http_ctx = "created", !.session = None], exitFail),
             raised |-> FALSE, probed |-> TRUE, steps |-> ConnectSteps(HttpOrder, 2)]
      [] outcome = "session_enter_fail" ->
            [sv |-> start_http_cleanup(
                        [sv EXCEPT !.http_ctx = "entered", !.session_ctx = "created",
                                   !.session = None], exitFail),
             raised |-> FALSE, probed |-> TRUE, steps |-> ConnectSteps(HttpOrder, 3)]
      [] outcome \in {"init_timeout", "init_error"} ->
            [sv |-> start_http_cleanup(
                        [sv EXCEPT !.http_ctx = "entered", !.session_ctx = "entered",
                                   !.session = None], exitFail),
             raised |-> FALSE, probed |-> TRUE, steps |-> ConnectSteps(HttpOrder, 4)]
      [] OTHER ->
            [sv |-> [sv EXCEPT !.http_ctx = "entered", !.session_ctx = "entered",
                               !.session = "session"],
             raised |-> FALSE, probed |-> TRUE, steps |-> ConnectSteps(HttpOrder, 0)]

\* utils/server.py:89-93  the order of the steps of a stdio server
StdioOrder == << "stdio_enter", "initialize" >>

\* utils/server.py:82-106  Server._start_stdio
Server_start_stdio(sv, outcome, exitFail) ==
    CASE outcome = "no_command" ->
            [sv |-> sv, raised |-> TRUE, probed |-> FALSE, steps |-> << >>]
      [] outcome \in {"enter_fail", "init_fail"} ->
            [sv |-> IF exitFail = "stdio"
                    THEN [sv EXCEPT !.session = None,
                                    !.stdio_ctx = IF outcome = "enter_fail" THEN "created" ELSE "entered"]
                    ELSE [sv EXCEPT !.session = None, !.stdio_ctx = None],
             raised |-> FALSE, probed |-> FALSE,
             steps |-> ConnectSteps(StdioOrder, IF outcome = "enter_fail" THEN 1 ELSE 2)]
      [] OTHER ->
            [sv |-> [sv EXCEPT !.session = "session", !.stdio_ctx = "entered"],
             raised |-> FALSE, probed |-> FALSE, steps |-> ConnectSteps(StdioOrder, 0)]

\* utils/server.py:24-28  Server.start
Server_start(sv, isHttp, outcome, exitFail) ==
    IF isHttp THEN Server_start_http(sv, outcome, exitFail)
    ELSE Server_start_stdio(sv, outcome, exitFail)

\* utils/tool.py:7  the parameters Tool.__init__ accepts
ToolInitParams == {"name", "description", "input_schema", "config", "is_allowed"}

\* utils/server.py:128-135  the keyword arguments get_tools passes to Tool(...)
GetToolsKwargs == {"name", "description", "input_schema", "config", "is_allowed", "server_name"}

\* utils/tool.py:7  Tool(...) raises TypeError on a keyword it does not declare
Tool__init__Raises(kwargs) == ~(kwargs \subseteq ToolInitParams)

\* The Tool objects of one server's report, as get_tools would build them.
BuildTools(s, allowList) ==
    [i \in 1..Len(Reported[s]) |->
        [name |-> Reported[s][i],
         is_allowed |-> Server_get_tools_allowed(allowList, Reported[s][i]),
         server_name |-> s]]

\* Discovery without the allow-list and without the failing constructor call:
\* every reported tool comes back allowed.
Server_get_tools_unfiltered(sv, s, allowList, listOk) ==
    IF sv.session = None \/ ~listOk
    THEN << >>
    ELSE [i \in 1..Len(Reported[s]) |->
            [name |-> Reported[s][i], is_allowed |-> TRUE, server_name |-> s]]

\* utils/server.py:108-146  Server.get_tools.  An exception inside the try
\* (list_tools failing, Tool(...) raising) is logged and [] is returned.
Server_get_tools(sv, s, allowList, listOk) ==
    IF sv.session = None
    THEN << >>
    ELSE IF ~listOk
         THEN << >>
         ELSE IF Len(Reported[s]) > 0 /\ Tool__init__Raises(GetToolsKwargs)
              THEN << >>
              ELSE BuildTools(s, allowList)


\* [tool for tool in new_tools if tool.is_allowed]
IsAllowedTool(t) == t.is_allowed

FilterAllowed(ts) == SelectSeq(ts, IsAllowedTool)

\* What the environment does to one server during start-up: how start()
\* ends, which __aexit__ of its clean-up raises (only those the clean-up
\* reaches), and whether the later list_tools succeeds (only asked of a
\* connected server).
StartEnv(outcome, exitFail, listOk) ==
    [outcome |-> outcome, exitFail |-> exitFail, listOk |-> listOk]

StartEnvs(isHttp) ==
    IF isHttp
    THEN {StartEnv("no_url", "none", FALSE), StartEnv("probe_fail", "none", FALSE)}
         \cup {StartEnv("http_enter_fail", x, FALSE) : x \in {"none", "http"}}
         \cup {StartEnv(o, x, FALSE) : o \in {"session_enter_fail", "init_timeout", "init_error"},
                                       x \in {"none", "session", "http"}}
         \cup {StartEnv("ok", "none", l) : l \in BOOLEAN}
    ELSE {StartEnv("no_command", "none", FALSE)}
         \cup {StartEnv(o, x, FALSE) : o \in {"enter_fail", "init_fail"}, x \in {"none", "stdio"}}
         \cup {StartEnv("ok", "none", l) : l \in BOOLEAN}

NotStarted == StartEnv("unstarted", "none", FALSE)

\* The state a bot's start() loop works on: the servers as constructed and the
\* bot's tool lists as they are when start() is entered.
NewBoot(preloaded) ==
    [srv |-> [s \in Servers |-> NewServer],
     tools |-> preloaded,
     all_tools |-> << >>,
     log |-> [s \in Servers |-> NotStarted],
     aborted |-> FALSE]

\* utils/slackbot.py:85-113 without the try/except around one server: the first
\* start() that raises ends the loop.
RECURSIVE SlackBot_start_loop_noexcept(_, _, _, _, _)
SlackBot_start_loop_noexcept(i, st, isHttp, allowLists, env) ==
    IF i > Len(ServerOrder) \/ st.aborted
    THEN st
    ELSE LET s == ServerOrder[i]
             r == Server_start(st.srv[s], isHttp[s], env[s].outcome, env[s].exitFail)
             new_tools == Server_get_tools(r.sv, s, allowLists[s], env[s].listOk)
         IN  IF r.raised
             THEN SlackBot_start_loop_noexcept(i + 1,
                      [st EXCEPT !.log[s] = env[s], !.aborted = TRUE],
                      isHttp, allowLists, env)
             ELSE SlackBot_start_loop_noexcept(i + 1,
                      [st EXCEPT !.srv[s] = r.sv,
                                 !.log[s] = env[s],
                                 !.all_tools = @ \o new_tools,
                                 !.tools = @ \o FilterAllowed(new_tools)],
                      isHttp, allowLists, env)

\* utils/slackbot.py:85-113  SlackBot.start, the loop over self.servers
RECURSIVE SlackBot_start_loop(_, _, _, _, _)
SlackBot_start_loop(i, st, isHttp, allowLists, env) ==
    IF i > Len(ServerOrder)
    THEN st
    ELSE LET s == ServerOrder[i]
             r == Server_start(st.srv[s], isHttp[s], env[s].outcome, env[s].exitFail)
             new_tools == Server_get_tools(r.sv, s, allowLists[s], env[s].listOk)
         IN  IF r.raised
             THEN \* except Exception: warn, next server
                  SlackBot_start_loop(i + 1, [st EXCEPT !.log[s] = env[s]],
                                      isHttp, allowLists, env)
             ELSE SlackBot_start_loop(i + 1,
                      [st EXCEPT !.srv[s] = r.sv,
                                 !.log[s] = env[s],
                                 !.all_tools = @ \o new_tools,
                                 !.tools = @ \o FilterAllowed(new_tools)],
                      isHttp, allowLists, env)

\* utils/slack_bot.py:43-59  SlackBot.start, the loop over self.servers
RECURSIVE slack_bot_start_loop(_, _, _, _, _)
slack_bot_start_loop(i, st, isHttp, allowLists, env) ==
    IF i > Len(ServerOrder)
    THEN st
    ELSE LET s == ServerOrder[i]
             r == Server_start(st.srv[s], isHttp[s], env[s].outcome, env[s].exitFail)
             new_tools == Server_get_tools(r.sv, s, allowLists[s], env[s].listOk)
         IN  IF r.raised
             THEN slack_bot_start_loop(i + 1, [st EXCEPT !.log[s] = env[s]],
                                       isHttp, allowLists, env)
             ELSE IF r.sv.session # None
                  THEN slack_bot_start_loop(i + 1,
                           [st EXCEPT !.srv[s] = r.sv,
                                      !.log[s] = env[s],
                                      !.tools = @ \o FilterAllowed(new_tools)],
                           isHttp, allowLists, env)
                  ELSE slack_bot_start_loop(i + 1,
                           [st EXCEPT !.srv[s] = r.sv, !.log[s] = env[s]],
                           isHttp, allowLists, env)


(***************************************************************************)
(* 4. The oracle's replies and utils/elicitation.py.  A reply is described *)
(* by what the parser looks for in its text.                               *)
(*   greet / conv    the text contains "GREETING: true" / "CONVERSATIONAL: *)
(*                   true"                                                 *)
(*   clarifyKw       the text contains "CLARIFY:"                          *)
(*   clarifyLine     the rest of the first line that starts with CLARIFY:  *)
(*                   (NoLine when no line starts with it)                  *)
(*   toolKw/toolLine the same for "TOOL:"                                  *)
(*   argsKw          the text contains "ARGS:"                             *)
(*   args            the text after "ARGS:"                                *)
(***************************************************************************)
NoLine == "<no line>"

\* An argument mapping is a set of <<parameter, value>> pairs.
ArgMaps == {{}, {<<"symbol", "AAPL">>}}

\* The text after "ARGS:":
\*   flat        one JSON object without nested braces, holding `map`
\*   invalid     {...} that is not JSON
\*   unbalanced  an opening brace that is never closed
\*   none        no brace at all
ArgsTexts ==
    {[kind |-> "flat", map |-> m] : m \in ArgMaps}
    \cup {[kind |-> k, map |-> {}] : k \in {"invalid", "unbalanced", "none"}}

NoArgsText == [kind |-> "none", map |-> {}]

Reply(greet, conv, clarifyKw, clarifyLine, toolKw, toolLine, argsKw, args) ==
    [greet |-> greet, conv |-> conv, clarifyKw |-> clarifyKw, clarifyLine |-> clarifyLine,
     toolKw |-> toolKw, toolLine |-> toolLine, argsKw |-> argsKw, args |-> args]

PlainReply == Reply(FALSE, FALSE, FALSE, NoLine, FALSE, NoLine, FALSE, NoArgsText)

ClarifyReply(tool, question) ==
    Reply(FALSE, FALSE, TRUE, question, tool # NoLine, tool, FALSE, NoArgsText)

ExecReply(tool, args) ==
    Reply(FALSE, FALSE, FALSE, NoLine, TRUE, tool, TRUE, args)

\* The replies the oracle is let to give.
Replies ==
    { PlainReply,
      Reply(TRUE, FALSE, FALSE, NoLine, FALSE, NoLine, FALSE, NoArgsText),
      Reply(FALSE, TRUE, FALSE, NoLine, FALSE, NoLine, FALSE, NoArgsText),
      ClarifyReply(NoLine, "which?"),
      ClarifyReply("a", "what symbol?"),
      Reply(FALSE, FALSE, TRUE, NoLine, FALSE, NoLine, FALSE, NoArgsText),
      ExecReply("a", [kind |-> "flat", map |-> {<<"symbol", "AAPL">>}]),
      ExecReply("a", [kind |-> "flat", map |-> {}]),
      ExecReply("a", [kind |-> "invalid", map |-> {}]),
      ExecReply("b", [kind |-> "unbalanced", map |-> {}]),
      ExecReply("c", [kind |-> "none", map |-> {}]),
      ExecReply(NoLine, [kind |-> "flat", map |-> {}]) }

\* A decision (tool_name, args, clarification); hasArgs = FALSE is args None.
Decision(tool, hasArgs, args, clar) ==
    [tool |-> tool, hasArgs |-> hasArgs, args |-> args, clar |-> clar]

NoneNoneNone == Decision(None, FALSE, {}, None)

\* Python truthiness of an optional string
Truthy(x) == x # None /\ x # ""

ToolNamesOf(ts) == {ts[i].name : i \in 1..Len(ts)}

\* A search that finds no object in any text.
HasFlatJsonMatch_never(a) == FALSE

\* utils/elicitation.py:177  re.search(r'\{[^{}]*\}', args_str): is there a match
HasFlatJsonMatch(a) == a.kind \in {"flat", "invalid"}

\* utils/elicitation.py:115-190  ElicitationHandler._parse_intent_response
parse_intent_response(r, available_tools) ==
    IF r.greet THEN Decision("GREETING", FALSE, {}, None)
    ELSE IF r.conv THEN NoneNoneNone
    ELSE IF r.clarifyKw
    THEN IF r.clarifyLine = NoLine
         THEN NoneNoneNone
         ELSE Decision(IF r.toolKw /\ r.toolLine # NoLine THEN r.toolLine ELSE None,
                       FALSE, {}, r.clarifyLine)
    ELSE IF r.toolKw /\ r.argsKw
    THEN IF r.toolLine = NoLine
         THEN NoneNoneNone
         ELSE IF r.toolLine \notin ToolNamesOf(available_tools)
         THEN Decision(None, FALSE, {}, "Sorry, I don't have access to a tool that can do that right now.")
         ELSE IF HasFlatJsonMatch(r.args)
         THEN IF r.args.kind = "flat"
              THEN Decision(r.toolLine, TRUE, r.args.map, None)
              ELSE Decision(None, FALSE, {}, "I had trouble parsing the parameters. Could you rephrase your request?")
         ELSE Decision(r.toolLine, TRUE, {}, None)
    ELSE NoneNoneNone

\* A prompt sent to the oracle: its kind and the tool names it lists.
Prompt(kind, listed) == [kind |-> kind, listed |-> listed]

\* The text of a tool result as the bots obtain it: `text` is what the tool
\* put into its content ("" when call_tool ended as "empty"), an error string
\* of run_tool otherwise; repr = TRUE when the bot holds str() of the object
\* around that text, which is never a blank string.
ResultText(repr, text) == [repr |-> repr, text |-> text]

\* `not result_text or result_text.strip() == ""`
IsBlank(result_text) == ~result_text.repr /\ result_text.text = ""

\* The prompt that asks the oracle to explain a tool result; it quotes the
\* result text.
InterpretPrompt(result_text) ==
    [kind |-> "interpret", listed |-> {}, result |-> result_text]

\* The function without `if not available_tools: return None, None, None`:
\* the oracle is asked even when there is no tool to offer.
analyze_user_intent_unguarded(available_tools, r) ==
    [d |-> parse_intent_response(r, available_tools),
     prompts |-> << Prompt("intent", ToolNamesOf(available_tools)) >>]

\* utils/elicitation.py:43-113  ElicitationHandler.analyze_user_intent
analyze_user_intent(available_tools, r) ==
    IF Len(available_tools) = 0
    THEN [d |-> NoneNoneNone, prompts |-> << >>]
    ELSE [d |-> parse_intent_response(r, available_tools),
          prompts |-> << Prompt("intent", ToolNamesOf(available_tools)) >>]

\* The input schema each tool reports: its required parameters.
RequiredParams(name) == IF name = "a" THEN {"symbol"} ELSE {}

\* utils/elicitation.py:192-228  ElicitationHandler.validate_tool_call:
\* the missing required parameters (the question lists exactly these).
validate_tool_call(name, args) ==
    {p \in RequiredParams(name) : \A pair \in args : pair[1] # p}

\* The same function on a tool's whole input schema.  A schema is
\*   required    the list under "required" (absent is the empty list)
\*   properties  for each declared parameter, its "description" or NoDesc
\*               when the property has none
\* and the arguments are a set of <<key, value>> pairs.
ParamNames == {"symbol", "period"}

NoDesc == "<no description key>"

Descriptions == {NoDesc, "ticker symbol"}

RequiredLists ==
    {<< >>} \cup {<<p>> : p \in ParamNames}
            \cup {<<p, q>> : <<p, q>> \in {pq \in ParamNames \X ParamNames : pq[1] # pq[2]}}

PropertyMaps ==
    UNION {[ps -> Descriptions] : ps \in SUBSET ParamNames}

Schemas == [required : RequiredLists, properties : PropertyMaps]

ArgKeys == ParamNames \cup {"extra"}

SchemaArgs == {{<<k, "v">> : k \in ks} : ks \in SUBSET ArgKeys}

\* utils/tool.py:145-147  Tool.get_required_parameters
get_required_parameters(schema) == schema.required

\* utils/tool.py:149-155  Tool.get_parameter_descriptions
get_parameter_descriptions(schema) ==
    [p \in DOMAIN schema.properties |->
        IF schema.properties[p] = NoDesc THEN "No description available"
        ELSE schema.properties[p]]

NoQuestion == [asked |-> FALSE, tool |-> None, lines |-> << >>]

\* `param not in args`
InArgs(param, args) == \E pair \in args : pair[1] = param

\* The function with the list comprehension keeping the parameters that ARE
\* in the arguments.
ElicitationHandler_validate_tool_call_present(tool_name, args, schema) ==
    LET required_params == get_required_parameters(schema)
        missing == SelectSeq(required_params, LAMBDA param : InArgs(param, args))
        param_descriptions == get_parameter_descriptions(schema)
    IN  IF required_params = << >> THEN NoQuestion
        ELSE IF missing # << >>
        THEN [asked |-> TRUE, tool |-> tool_name,
              lines |-> [i \in 1..Len(missing) |->
                  [param |-> missing[i],
                   desc |-> IF missing[i] \in DOMAIN param_descriptions
                            THEN param_descriptions[missing[i]]
                            ELSE "No description"]]]
        ELSE NoQuestion

\* utils/elicitation.py:192-228  ElicitationHandler.validate_tool_call: the
\* question "To use the **tool** tool, I need the following information:"
\* followed by one line "- **param**: desc" per missing parameter, or None.
ElicitationHandler_validate_tool_call(tool_name, args, schema) ==
    LET required_params == get_required_parameters(schema)
        missing == SelectSeq(required_params, LAMBDA param : ~InArgs(param, args))
        param_descriptions == get_parameter_descriptions(schema)
    IN  IF required_params = << >> THEN NoQuestion
        ELSE IF missing # << >>
        THEN [asked |-> TRUE, tool |-> tool_name,
              lines |-> [i \in 1..Len(missing) |->
                  [param |-> missing[i],
                   desc |-> IF missing[i] \in DOMAIN param_descriptions
                            THEN param_descriptions[missing[i]]
                            ELSE "No description"]]]
        ELSE NoQuestion

\* A resolution that finds every reply still ambiguous.
handle_clarification_response_reask(original_tool, available_tools, r) ==
    [d |-> Decision(None, FALSE, {}, "I didn't understand. Could you please rephrase your response?"),
     prompts |-> << Prompt("clarify", {original_tool}) >>]

\* The function without the special case for the tool name "unknown": the
\* tool-scoped extraction prompt is built for whatever name is pending.
handle_clarification_response_scoped(original_tool, available_tools, r) ==
    LET result == parse_intent_response(r, available_tools)
        prompts == << Prompt("clarify", {original_tool}) >>
    IN  IF result = NoneNoneNone \/ Truthy(result.tool)
        THEN [d |-> result, prompts |-> prompts]
        ELSE [d |-> Decision(None, FALSE, {}, "I didn't understand. Could you please rephrase your response?"),
              prompts |-> prompts]

\* utils/elicitation.py:230-383  ElicitationHandler.handle_clarification_response
handle_clarification_response(original_tool, available_tools, r) ==
    IF original_tool = "unknown" \/ original_tool \notin ToolNamesOf(available_tools)
    THEN analyze_user_intent(available_tools, r)
    ELSE LET result == parse_intent_response(r, available_tools)
             prompts == << Prompt("clarify", {original_tool}) >>
         IN  IF result = NoneNoneNone
             THEN [d |-> NoneNoneNone, prompts |-> prompts]
             ELSE IF Truthy(result.tool)
             THEN [d |-> result, prompts |-> prompts]
             ELSE IF RequiredParams(original_tool) # {}
             THEN [d |-> Decision(None, FALSE, {}, "I need more information. Please provide: ..."),
                   prompts |-> prompts]
             ELSE [d |-> Decision(None, FALSE, {}, "I didn't understand. Could you please rephrase your response?"),
                   prompts |-> prompts]


(***************************************************************************)
(* 5. utils/slackbot.py: execute_tool and process_message.                 *)
(***************************************************************************)
Channels == {"C", "D"}

\* The conversations that send messages: two users sharing channel C, and one
\* user in another channel.
Keys == {<<"C", "U">>, <<"C", "V">>, <<"D", "U">>}

Texts == {"AAPL", "help"}

\* utils/slackbot.py:353  "help" in text_lower and len(text_lower.split()) <= 3
IsHelpQuery(text) == text = "help"

NoPending == [tool_name |-> None, question |-> None, query |-> None]

\* A request that is asked but not stored.
create_elicitation_request_lost(pending, channel_id, tool_name, question, original_query) ==
    pending

\* utils/elicitation.py:385-417  create_elicitation_request: one slot per channel_id
create_elicitation_request(pending, channel_id, tool_name, question, original_query) ==
    [pending EXCEPT ![channel_id] =
        [tool_name |-> tool_name, question |-> question, query |-> original_query]]

\* A lookup that finds no request, whatever is stored.
has_pending_request_never(pending, channel_id) == FALSE

\* utils/elicitation.py:419-421  has_pending_request
has_pending_request(pending, channel_id) == pending[channel_id] # NoPending

\* A clearing that leaves the request where it is.
clear_pending_request_kept(pending, channel_id) == pending

\* utils/elicitation.py:427-430  clear_pending_request
clear_pending_request(pending, channel_id) == [pending EXCEPT ![channel_id] = NoPending]

Call(s, method, tool) == [server |-> s, method |-> method, tool |-> tool]

\* utils/slackbot.py:425  any(t.name == tool_name and t.is_allowed for t in self.tools)
HasAllowedTool(ts, tool_name) ==
    \E i \in 1..Len(ts) : ts[i].name = tool_name /\ ts[i].is_allowed

\* utils/slackbot.py:477-494  _extract_tool_result, utils/slack_bot.py:322-328
\* _extract_text: run_tool of utils/server.py returns response.content (a
\* list) or an error string, neither has an attribute `content`, so the text
\* is str(result).
extract_tool_result(result, callOutcome) ==
    IF result.val.tag = "content"
    THEN ResultText(TRUE, IF callOutcome = "empty" THEN "" ELSE "data")
    ELSE ResultText(FALSE, result.val.tag)

\* utils/slackbot.py:429-471  the loop over self.servers of execute_tool;
\* emptyCheck is the test of utils/slack_bot.py:304-305, which utils/slackbot.py
\* does not have.
RECURSIVE execute_tool_loop(_, _, _, _, _, _, _)
execute_tool_loop(i, tool_name, srvs, allowLists, callOutcome, calls, emptyCheck) ==
    IF i > Len(ServerOrder)
    THEN [text |-> "Sorry, couldn't find tool", calls |-> calls, prompts |-> << >>]
    ELSE LET s == ServerOrder[i]
             listCall == IF srvs[s].session # None
                         THEN << Call(s, "list_tools", None) >> ELSE << >>
             server_tools == Server_get_tools(srvs[s], s, allowLists[s], TRUE)
         IN  IF HasAllowedTool(server_tools, tool_name)
             THEN LET result == Server_run_tool(srvs[s].session, << callOutcome >>)
                      result_text == extract_tool_result(result, callOutcome)
                      made == calls \o listCall \o
                              (IF result.attempts > 0
                               THEN << Call(s, "call_tool", tool_name) >> ELSE << >>)
                  IN  IF emptyCheck /\ IsBlank(result_text)
                      THEN [text |-> "Tool executed but returned no data.",
                            calls |-> made, prompts |-> << >>]
                      ELSE [text |-> "interpretation", calls |-> made,
                            prompts |-> << InterpretPrompt(result_text) >>]
             ELSE execute_tool_loop(i + 1, tool_name, srvs, allowLists, callOutcome,
                                    calls \o listCall, emptyCheck)

\* utils/slackbot.py:408-475  SlackBot.execute_tool
execute_tool(tool_name, ts, srvs, allowLists, callOutcome) ==
    IF ~HasAllowedTool(ts, tool_name)
    THEN [text |-> "Sorry, the tool is not available or not allowed.",
          calls |-> << >>, prompts |-> << >>]
    ELSE execute_tool_loop(1, tool_name, srvs, allowLists, callOutcome, << >>, FALSE)

Turn(role, content) == [role |-> role, content |-> content]

\* What one process_message call did: the conversation key, the pending
\* request of the channel when the call began, the branches taken, the
\* oracle's replies that were read, the decisions obtained from them, the
\* prompts sent to the oracle, the session calls, the texts said and the tool
\* invocations asked of execute_tool.
Trace(key, before, route, replies, decisions, prompts, calls, say, executed) ==
    [key |-> key, before |-> before, route |-> route, replies |-> replies,
     decisions |-> decisions, prompts |-> prompts, calls |-> calls, say |-> say,
     executed |-> executed]

NoTrace == Trace(<<None, None>>, NoPending, << >>, << >>, << >>, << >>, << >>, << >>, << >>)

\* The trace of a call that has just begun.
Began(key, before) == Trace(key, before, << >>, << >>, << >>, << >>, << >>, << >>, << >>)

\* The trace t after one more decision d was obtained on `route`, reading the
\* oracle's reply r when a prompt was sent.
Decided(t, route, r, d, prompts) ==
    [t EXCEPT !.route = Append(@, route),
              !.replies = IF prompts = << >> THEN @ ELSE Append(@, r),
              !.decisions = Append(@, d),
              !.prompts = @ \o prompts]

\* The trace t after the call said `text`.
Said(t, text) == [t EXCEPT !.say = Append(@, text)]

\* The trace t after execute_tool(tool, args) returned x.
Executed(t, tool, args, x) ==
    [t EXCEPT !.prompts = @ \o x.prompts,
              !.calls = @ \o x.calls,
              !.say = Append(@, x.text),
              !.executed = Append(@, [tool |-> tool, args |-> args])]

\* utils/slackbot.py:258-401  process_message from the intent analysis on.
\* pend/conv are the state reached so far, t what the call did so far.
process_message_intent(pend, conv, ts, srvs, allowLists, c, u, text, r, callOutcome, t) ==
    LET key == <<c, u>>
        a == analyze_user_intent(ts, r)
        d == a.d
        conv1 == [conv EXCEPT ![key] = Append(@, Turn("user", text))]
        t1 == Decided(t, "intent", r, d, a.prompts)
    IN  IF Truthy(d.clar)
        THEN [pending |-> create_elicitation_request(pend, c,
                              IF Truthy(d.tool) THEN d.tool ELSE "unknown", d.clar, text),
              conversations |-> conv1,
              last |-> Said(t1, d.clar)]
        ELSE IF d.tool = "GREETING"
        THEN [pending |-> pend,
              conversations |-> [conv1 EXCEPT ![key] = Append(@, Turn("assistant", "greeting"))],
              last |-> Said(t1, "greeting")]
        ELSE IF Truthy(d.tool) /\ d.hasArgs
        THEN LET missing == validate_tool_call(d.tool, d.args)
                 x == execute_tool(d.tool, ts, srvs, allowLists, callOutcome)
             IN  IF d.tool \in ToolNamesOf(ts) /\ missing # {}
                 THEN [pending |-> create_elicitation_request(pend, c, d.tool,
                                       "To use the tool, I need the following information", text),
                       conversations |-> conv1,
                       last |-> Said(t1, "To use the tool, I need the following information")]
                 ELSE [pending |-> pend,
                       conversations |-> [conv1 EXCEPT ![key] = Append(@, Turn("assistant", x.text))],
                       last |-> Executed(t1, d.tool, d.args, x)]
        ELSE LET response == IF IsHelpQuery(text) THEN "help" ELSE "refusal"
             IN  [pending |-> pend,
                  conversations |-> [conv1 EXCEPT ![key] = Append(@, Turn("assistant", response))],
                  last |-> Said(t1, response)]

\* utils/slackbot.py:161-406  SlackBot.process_message.  r1 and r2 are the
\* oracle's replies to the first and second decision prompt of this call.
process_message(pend, conv, ts, srvs, allowLists, c, u, text, r1, r2, callOutcome) ==
    LET key == <<c, u>>
        t == Began(key, pend[c])
    IN  IF has_pending_request(pend, c)
        THEN LET h == handle_clarification_response(pend[c].tool_name, ts, r1)
                 d == h.d
                 t1 == Decided(t, "clarification", r1, d, h.prompts)
             IN  IF Truthy(d.clar)
                 THEN \* still need more info: say it, the request stays as it is
                      [pending |-> pend, conversations |-> conv, last |-> Said(t1, d.clar)]
                 ELSE IF Truthy(d.tool) /\ d.hasArgs
                 THEN LET x == execute_tool(d.tool, ts, srvs, allowLists, callOutcome)
                      IN  [pending |-> clear_pending_request(pend, c),
                           conversations |->
                               [conv EXCEPT ![key] = @ \o << Turn("user", text),
                                                            Turn("assistant", x.text) >>],
                           last |-> Executed(t1, d.tool, d.args, x)]
                 ELSE IF d.tool = None /\ ~d.hasArgs /\ d.clar = None
                 THEN [pending |-> clear_pending_request(pend, c), conversations |-> conv,
                       last |-> Said(t1, "capabilities")]
                 ELSE \* could not parse: clear and treat as a new query
                      process_message_intent(clear_pending_request(pend, c), conv, ts, srvs,
                                             allowLists, c, u, text, r2, callOutcome, t1)
        ELSE process_message_intent(pend, conv, ts, srvs, allowLists, c, u, text, r1,
                                    callOutcome, t)


(***************************************************************************)
(* 5b. utils/slack_bot.py: the second bot of utils.  Its oracle is asked   *)
(* for JSON; a reply is described by what the brace scan finds in its      *)
(* text.                                                                   *)
(*   kind    "none"        no opening brace                                *)
(*           "unbalanced"  an opening brace that is never closed           *)
(*           "invalid"     {...} that json.loads rejects                   *)
(*           "object"      a JSON object                                   *)
(*   tool_name, args, clarification   what data.get(...) gives for the     *)
(*           object (None when the member is absent or null)               *)
(*   map     the object itself, as the argument mapping that               *)
(*           _parse_clarification_response takes it for                    *)
(***************************************************************************)
JsonReply(kind, tool_name, hasArgs, args, clarification, map) ==
    [kind |-> kind, tool_name |-> tool_name, hasArgs |-> hasArgs, args |-> args,
     clarification |-> clarification, map |-> map]

BrokenJson(kind) == JsonReply(kind, None, FALSE, {}, None, {})

\* {"tool_name": ..., "args": ..., "clarification": ...}
JsonIntent(tool_name, hasArgs, args, clarification) ==
    JsonReply("object", tool_name, hasArgs, args, clarification,
              {<<"tool_name", tool_name>>, <<"args", IF hasArgs THEN "object" ELSE None>>,
               <<"clarification", clarification>>})

\* an object holding extracted parameters only
JsonParams(map) == JsonReply("object", None, FALSE, {}, None, map)

\* The replies the oracle of slack_bot.py is let to give.
JsonReplies ==
    { BrokenJson("none"), BrokenJson("unbalanced"), BrokenJson("invalid"),
      JsonParams({<<"symbol", "AAPL">>}),
      JsonParams({}),
      JsonIntent("a", TRUE, {<<"symbol", "AAPL">>}, None),
      JsonIntent("a", TRUE, {}, None),
      JsonIntent("c", TRUE, {}, None),
      JsonIntent("a", FALSE, {}, "what symbol?"),
      JsonIntent(None, FALSE, {}, "which?"),
      JsonIntent("GREETING", FALSE, {}, None),
      JsonIntent(None, FALSE, {}, None) }

\* utils/slack_bot.py:165-235  SlackBot._analyze_intent
slack_bot_analyze_intent(available_tools, r) ==
    IF Len(available_tools) = 0
    THEN [d |-> NoneNoneNone, prompts |-> << >>]
    ELSE [d |-> IF r.kind = "object"
                THEN Decision(r.tool_name, r.hasArgs, r.args, r.clarification)
                ELSE NoneNoneNone,
          prompts |-> << Prompt("intent", ToolNamesOf(available_tools)) >>]

\* utils/slack_bot.py:237-287  SlackBot._parse_clarification_response:
\* (tool_name, args), args None unless the object has members.
slack_bot_parse_clarification_response(ts, r, tool_name) ==
    IF tool_name \notin ToolNamesOf(ts)
    THEN [d |-> NoneNoneNone, prompts |-> << >>]
    ELSE [d |-> IF r.kind # "object"
                THEN NoneNoneNone
                ELSE IF r.map # {}
                THEN Decision(tool_name, TRUE, r.map, None)
                ELSE Decision(tool_name, FALSE, {}, None),
          prompts |-> << Prompt("clarify", {tool_name}) >>]

\* utils/slack_bot.py:289-320  SlackBot.execute_tool: the same allow-list
\* check and loop over the servers, every exception turned into a text.
slack_bot_execute_tool(tool_name, ts, srvs, allowLists, callOutcome) ==
    IF ~HasAllowedTool(ts, tool_name)
    THEN [text |-> "Tool is not available.", calls |-> << >>, prompts |-> << >>]
    ELSE LET x == execute_tool_loop(1, tool_name, srvs, allowLists, callOutcome, << >>, TRUE)
         IN  [x EXCEPT !.text = IF @ = "Sorry, couldn't find tool"
                                 THEN "Tool not found." ELSE @]

\* The pending branch without its `del`: the request stays.
del_pending_request_kept(pend, c) == pend

\* utils/slack_bot.py:121, 124  del self.pending_requests[channel]
del_pending_request(pend, c) == [pend EXCEPT ![c] = NoPending]

\* utils/slack_bot.py:87-164  SlackBot.process_message.  A pending request is
\* stored as PendingRequest(tool_name or "", clarification, text).
slack_bot_process_message(pend, conv, ts, srvs, allowLists, c, u, text, r, callOutcome) ==
    LET key == <<c, u>>
        t == Began(key, pend[c])
    IN  IF pend[c] # NoPending
        THEN LET h == slack_bot_parse_clarification_response(ts, r, pend[c].tool_name)
                 d == h.d
                 t1 == Decided(t, "clarification", r, d, h.prompts)
                 x == slack_bot_execute_tool(d.tool, ts, srvs, allowLists, callOutcome)
             IN  IF d.hasArgs
                 THEN [pending |-> del_pending_request(pend, c),
                       conversations |->
                           [conv EXCEPT ![key] = @ \o << Turn("user", text),
                                                        Turn("assistant", x.text) >>],
                       last |-> Executed(t1, d.tool, d.args, x)]
                 ELSE [pending |-> del_pending_request(pend, c),
                       conversations |-> conv,
                       last |-> Said(t1, "Could not parse that. Please try again or ask for help.")]
        ELSE LET a == slack_bot_analyze_intent(ts, r)
                 d == a.d
                 conv1 == [conv EXCEPT ![key] = Append(@, Turn("user", text))]
                 t1 == Decided(t, "intent", r, d, a.prompts)
                 x == slack_bot_execute_tool(d.tool, ts, srvs, allowLists, callOutcome)
             IN  IF Truthy(d.clar)
                 THEN [pending |-> [pend EXCEPT ![c] =
                                       [tool_name |-> IF Truthy(d.tool) THEN d.tool ELSE "",
                                        question |-> d.clar, query |-> text]],
                       conversations |-> conv1,
                       last |-> Said(t1, d.clar)]
                 ELSE IF d.tool = "GREETING"
                 THEN [pending |-> pend,
                       conversations |-> [conv1 EXCEPT ![key] = Append(@, Turn("assistant", "greeting"))],
                       last |-> Said(t1, "greeting")]
                 ELSE IF Truthy(d.tool) /\ d.hasArgs
                 THEN [pending |-> pend,
                       conversations |-> [conv1 EXCEPT ![key] = Append(@, Turn("assistant", x.text))],
                       last |-> Executed(t1, d.tool, d.args, x)]
                 ELSE LET response == IF IsHelpQuery(text) THEN "greeting" ELSE "refusal"
                      IN  [pending |-> pend,
                           conversations |-> [conv1 EXCEPT ![key] = Append(@, Turn("assistant", response))],
                           last |-> Said(t1, response)]


(***************************************************************************)
(* 6. main.py: the first bot.  Its Server has no allow-list: the           *)
(* configuration's allowedTools is never read.                             *)
(***************************************************************************)
\* main.py:70-74  Server.__init__
NewMainServer == [session |-> None, stack |-> None]

\* How the environment answers one start() of main.py's Server.
MainOutcomes == {"bad_config", "enter_fail", "init_fail", "ok"}

\* main.py:139-158  Server.cleanup: both handles end None, whether or not
\* their __aexit__ raises.
main_Server_cleanup(sv) == [sv EXCEPT !.session = None, !.stack = None]

\* main.py:76-103  Server.start: every failure cleans up and is re-raised.
main_Server_start(sv, outcome) ==
    CASE outcome = "bad_config" ->
            [sv |-> main_Server_cleanup(sv), raised |-> TRUE]
      [] outcome = "enter_fail" ->
            [sv |-> main_Server_cleanup([sv EXCEPT !.stack = "client"]), raised |-> TRUE]
      [] outcome = "init_fail" ->
            [sv |-> main_Server_cleanup([sv EXCEPT !.stack = "client", !.session = "session"]),
             raised |-> TRUE]
      [] OTHER ->
            [sv |-> [sv EXCEPT !.stack = "client", !.session = "session"], raised |-> FALSE]

\* main.py:105-121  Server.get_tools: every reported tool, no allow-list
main_Server_get_tools(sv, s, listOk) ==
    IF sv.session = None
    THEN << >>
    ELSE IF ~listOk
         THEN << >>
         ELSE [i \in 1..Len(Reported[s]) |-> [name |-> Reported[s][i]]]

\* main.py:227-236  SlackBot.start, the loop over self.servers
RECURSIVE main_start_loop(_, _, _)
main_start_loop(i, st, env) ==
    IF i > Len(ServerOrder)
    THEN st
    ELSE LET s == ServerOrder[i]
             r == main_Server_start(st.srv[s], env[s].outcome)
             new_tools == main_Server_get_tools(r.sv, s, env[s].listOk)
         IN  IF r.raised
             THEN main_start_loop(i + 1, [st EXCEPT !.srv[s] = r.sv, !.log[s] = env[s]], env)
             ELSE main_start_loop(i + 1,
                      [st EXCEPT !.srv[s] = r.sv,
                                 !.log[s] = env[s],
                                 !.tools = @ \o new_tools],
                      env)

\* A name no server reports.
UnknownTool == "zz"

\* The oracle's reply to main.py's chat prompt: does it contain "[TOOL]",
\* which name follows it, and is the next line a JSON object.
MainReplies ==
    {[hasTool |-> FALSE, name |-> None, argsOk |-> FALSE]}
    \cup {[hasTool |-> TRUE, name |-> n, argsOk |-> ok] :
              n \in ToolNames \cup {UnknownTool}, ok \in BOOLEAN}

\* The call_tool calls one run_tool made.
CallToolCalls(s, tool, attempts) == [i \in 1..attempts |-> Call(s, "call_tool", tool)]

\* main.py:346-357  the loop over self.servers of handle_tool
RECURSIVE main_handle_tool_loop(_, _, _, _, _)
main_handle_tool_loop(i, name, srvs, script, calls) ==
    IF i > Len(ServerOrder)
    THEN [text |-> "Sorry, couldn't find tool", calls |-> calls, prompts |-> << >>]
    ELSE LET s == ServerOrder[i]
             listCall == IF srvs[s].session # None
                         THEN << Call(s, "list_tools", None) >> ELSE << >>
             server_tools == main_Server_get_tools(srvs[s], s, TRUE)
         IN  IF name \in ToolNamesOf(server_tools)
             THEN LET result == main_Server_run_tool(srvs[s].session, script)
                      made == calls \o listCall \o CallToolCalls(s, name, result.attempts)
                  IN  IF result.kind = "raise"
                      THEN [text |-> "Sorry, there was an error using the tool",
                            calls |-> made, prompts |-> << >>]
                      ELSE \* f"Tool {name} returned: {result}" with the
                           \* CallToolResult that call_tool returned
                           [text |-> "interpretation", calls |-> made,
                            prompts |-> << InterpretPrompt(
                                ResultText(TRUE,
                                    IF script[result.val.attempt] = "empty"
                                    THEN "" ELSE "data")) >>]
             ELSE main_handle_tool_loop(i + 1, name, srvs, script, calls \o listCall)

\* main.py:337-361  SlackBot.handle_tool
main_handle_tool(r, srvs, script) ==
    IF ~r.argsOk
    THEN [text |-> "Sorry, there was an error using the tool", calls |-> << >>,
          prompts |-> << >>]
    ELSE main_handle_tool_loop(1, r.name, srvs, script, << >>)

\* main.py:280-335  SlackBot.process_message; the history is kept per channel.
main_process_message(conv, ts, srvs, c, u, text, r, script) ==
    LET conv1 == [conv EXCEPT ![c] = Append(@, Turn("user", text))]
        chat == << Prompt("chat", ToolNamesOf(ts)) >>
        x == IF r.hasTool
             THEN main_handle_tool(r, srvs, script)
             ELSE [text |-> "reply", calls |-> << >>, prompts |-> << >>]
    IN  [conversations |-> [conv1 EXCEPT ![c] = Append(@, Turn("assistant", x.text))],
         last |-> Trace(<<c, u>>, NoPending, << "chat" >>, << r >>, << >>, chat \o x.prompts,
                        x.calls, << x.text >>,
                        IF r.hasTool /\ r.argsOk
                        THEN << [tool |-> r.name, args |-> {}] >> ELSE << >>)]


(***************************************************************************)
(* 7. The bots as state machines.                                          *)
(***************************************************************************)
MaxMsgs == 2

\* What discovery is meant to put into SlackBot.tools for the configured
\* allow-lists: the allowed tools of every server, in server order.
RECURSIVE AllowedCatalog(_, _)
AllowedCatalog(i, allowLists) ==
    IF i > Len(ServerOrder)
    THEN << >>
    ELSE FilterAllowed(BuildTools(ServerOrder[i], allowLists[ServerOrder[i]]))
         \o AllowedCatalog(i + 1, allowLists)

IdleBoot ==
    /\ srv = [s \in Servers |-> NewServer]
    /\ all_tools = << >>
    /\ startLog = [s \in Servers |-> NotStarted]
    /\ phase = "init"

IdleConv ==
    /\ pending_requests = [c \in Channels |-> NoPending]
    /\ conversations = [k \in Keys |-> << >>]
    /\ last = NoTrace
    /\ msgs = 0

IdleBot ==
    /\ bot = "slackbot"
    /\ is_http = [s \in Servers |-> TRUE]
    /\ allowed_tools = [s \in Servers |-> {}]
    /\ tools = << >>
    /\ IdleBoot
    /\ IdleConv

\* SlackBot.start of the running bot, the environment answering with env;
\* authOk is whether auth_test succeeds (utils/slackbot.py:119-125).
StartWith(env, authOk) ==
    /\ phase = "init"
    /\ LET st == IF bot = "slack_bot"
                 THEN slack_bot_start_loop(1, NewBoot(tools), is_http, allowed_tools, env)
                 ELSE SlackBot_start_loop(1, NewBoot(tools), is_http, allowed_tools, env)
       IN  /\ srv' = st.srv
           /\ tools' = st.tools
           /\ all_tools' = st.all_tools
           /\ startLog' = st.log
           /\ phase' = IF st.aborted THEN "crashed"
                       ELSE IF authOk THEN "serving" ELSE "auth_failed"
    /\ UNCHANGED <<allowVars, rtVars, unitVars, cfgVars, convVars>>

\* ---- SpecStart: start-up of the two later bots under every environment ----
InitStart ==
    /\ IdleAllow /\ IdleRun /\ IdleUnit /\ IdleBoot /\ IdleConv
    /\ bot \in {"slackbot", "slack_bot"}
    /\ is_http \in [Servers -> BOOLEAN]
    /\ allowed_tools \in [Servers -> {{}, {"b"}}]
    /\ tools = << >>

Start ==
    \E e1 \in StartEnvs(is_http[1]), e2 \in StartEnvs(is_http[2]), authOk \in BOOLEAN :
        StartWith(<<e1, e2>>, authOk)

NextStart == Start

SpecStart == InitStart /\ [][NextStart]_vars

\* ---- SpecAllow: one allow-list decision on each discovery path ----
StartAllow == InitAllow /\ IdleRun /\ IdleUnit /\ IdleBot

NextAllow == ApplyServerGetTools \/ ApplyToolIsAllowed \/ ApplyMcpClient

SpecAllow == StartAllow /\ [][NextAllow]_vars

\* ---- SpecRun: one run_tool call of each Server class ----
StartRun == InitRun /\ IdleAllow /\ IdleUnit /\ IdleBot

NextRun == RunMain \/ RunUtils

SpecRun == StartRun /\ [][NextRun]_vars

\* ---- Spec: the bots of utils/slackbot.py and utils/slack_bot.py, start-up
\* and conversations ----
\* SlackBot.tools holds what start() discovered, after whatever was put there
\* before (Tool objects can be built directly, utils/tool.py:11-13).
Init ==
    /\ IdleAllow /\ IdleRun /\ IdleUnit /\ IdleBoot /\ IdleConv
    /\ bot \in {"slackbot", "slack_bot"}
    /\ is_http = [s \in Servers |-> TRUE]
    /\ allowed_tools = <<{}, {"b"}>>
    /\ tools \in {<< >>, AllowedCatalog(1, allowed_tools)}

ServeEnvs == {StartEnv("ok", "none", TRUE), StartEnv("probe_fail", "none", FALSE)}

StartBot == \E e1 \in ServeEnvs, e2 \in ServeEnvs : StartWith(<<e1, e2>>, TRUE)

\* Did the call reach the second decision prompt / the server's call_tool ?
AsksTwice(res) == Len(res.last.route) = 2

CallsTool(res) == \E i \in 1..Len(res.last.calls) : res.last.calls[i].method = "call_tool"

\* One message event handled by process_message.  The oracle's second reply
\* and the server's answer to call_tool are chosen only in the calls that
\* ask for them.
ProcessMessage ==
    /\ bot = "slackbot"
    /\ phase = "serving"
    /\ msgs < MaxMsgs
    /\ \E k \in Keys, text \in Texts, r1 \in Replies :
          LET P(r2, o) == process_message(pending_requests, conversations, tools, srv,
                                          allowed_tools, k[1], k[2], text, r1, r2, o)
          IN  \E p1 \in {P(r1, "ok")} :
              \E r2 \in (IF AsksTwice(p1) THEN Replies ELSE {r1}) :
              \E p2 \in {IF r2 = r1 THEN p1 ELSE P(r2, "ok")} :
              \E o \in (IF CallsTool(p2) THEN Outcomes ELSE {"ok"}) :
              \E res \in {IF o = "ok" THEN p2 ELSE P(r2, o)} :
                  /\ pending_requests' = res.pending
                  /\ conversations' = res.conversations
                  /\ last' = res.last
    /\ msgs' = msgs + 1
    /\ UNCHANGED <<allowVars, rtVars, unitVars, cfgVars, bootVars>>

\* One message event handled by process_message of utils/slack_bot.py.
SlackBotProcessMessage ==
    /\ bot = "slack_bot"
    /\ phase = "serving"
    /\ msgs < MaxMsgs
    /\ \E k \in Keys, text \in Texts, r \in JsonReplies :
          LET P(o) == slack_bot_process_message(pending_requests, conversations, tools, srv,
                                                allowed_tools, k[1], k[2], text, r, o)
          IN  \E p1 \in {P("ok")} :
              \E o \in (IF CallsTool(p1) THEN Outcomes ELSE {"ok"}) :
              \E res \in {IF o = "ok" THEN p1 ELSE P(o)} :
                  /\ pending_requests' = res.pending
                  /\ conversations' = res.conversations
                  /\ last' = res.last
    /\ msgs' = msgs + 1
    /\ UNCHANGED <<allowVars, rtVars, unitVars, cfgVars, bootVars>>

Next == StartBot \/ ProcessMessage \/ SlackBotProcessMessage

Spec == Init /\ [][Next]_vars

\* ---- SpecFaults: the bots of utils with an oracle and a say that can fail ----
Faults == {"connection refused", "timeout"}

\* utils/chatbot.py:50-54  the text returned when the call of the model raised
ApologyText(fault) ==
    IF fault = "connection refused"
    THEN "Error: Could not connect to the AI model. Is it running?"
    ELSE "Sorry, there was an error: str(e)"

\* utils/chatbot.py:17-54  ChatBot.get_response: the model's response, or the
\* text above when invoking it raised.  `unmarked` is how the caller's parser
\* sees a text that holds none of the things it looks for.
ChatBot_get_response(response, fault, unmarked) ==
    IF fault = None THEN response
    ELSE [text |-> ApologyText(fault)] @@ unmarked

FaultReplies ==
    { PlainReply,
      ClarifyReply("a", "what symbol?"),
      ExecReply("a", [kind |-> "flat", map |-> {<<"symbol", "AAPL">>}]),
      ExecReply("a", [kind |-> "flat", map |-> {}]) }

FaultJsonReplies ==
    { BrokenJson("none"),
      JsonParams({<<"symbol", "AAPL">>}),
      JsonIntent("a", TRUE, {<<"symbol", "AAPL">>}, None),
      JsonIntent("a", FALSE, {}, "what symbol?") }

\* utils/slackbot.py:201-405: a path calls say at most three times, in the
\* inner try, in its except clause and in the outer except clause.
SayAttempts == 3

NoSay == [op |-> "say", attempts |-> << >>, escaped |-> FALSE]

Attempt(text, raised) == [text |-> text, raised |-> raised]

\* The except clauses that a failing say runs through: `handlers` are the
\* texts they say in turn, say number n of the path raises iff n <= fails.
RECURSIVE say_handlers(_, _, _, _)
say_handlers(handlers, n, fails, attempts) ==
    IF handlers = << >>
    THEN \* no except clause is left: the exception leaves process_message
         [attempts |-> attempts, escaped |-> TRUE]
    ELSE IF n <= fails
         THEN say_handlers(Tail(handlers), n + 1, fails,
                           Append(attempts, Attempt(Head(handlers), TRUE)))
         ELSE [attempts |-> Append(attempts, Attempt(Head(handlers), FALSE)),
               escaped |-> FALSE]

Delivered(attempts) ==
    LET ok == SelectSeq(attempts, LAMBDA a : ~a.raised)
    IN  [i \in 1..Len(ok) |-> ok[i].text]

\* utils/slackbot.py:161-406 around a process_message whose body ended with
\* say(text=...): res is what the body did up to that say, pend0 the pending
\* requests when the call began.  A say of the clarification branch is inside
\* the inner try (201-243), whose except clause clears the request and says
\* its own text; every say is inside the outer try (189-406).
process_message_say(res, pend0, c, fails) ==
    LET inner == res.last.route = << "clarification" >>
        handlers ==
            res.last.say
            \o (IF inner
                THEN << "Sorry, I had trouble understanding your response. Let's start over" >>
                ELSE << >>)
            \o << "Sorry, something went wrong" >>
        x == say_handlers(handlers, 1, fails, << >>)
    IN  [pending |-> IF inner /\ fails >= 1
                     THEN clear_pending_request(res.pending, c) ELSE res.pending,
         conversations |-> res.conversations,
         last |-> [res.last EXCEPT !.say = Delivered(x.attempts)],
         said |-> [op |-> "say", attempts |-> x.attempts, escaped |-> x.escaped]]

\* utils/slack_bot.py:88-164 likewise: one try; in the branch of a pending
\* request the say comes before `del self.pending_requests[channel]`.
slack_bot_process_message_say(res, pend0, c, fails) ==
    LET x == say_handlers(res.last.say \o << "Sorry, something went wrong" >>, 1,
                          fails, << >>)
    IN  [pending |-> IF res.last.route = << "clarification" >> /\ fails >= 1
                     THEN [res.pending EXCEPT ![c] = pend0[c]] ELSE res.pending,
         conversations |-> res.conversations,
         last |-> [res.last EXCEPT !.say = Delivered(x.attempts)],
         said |-> [op |-> "say", attempts |-> x.attempts, escaped |-> x.escaped]]

\* What get_response can return to a caller.
Responses(replies, unmarked) ==
    {ChatBot_get_response(r, f, unmarked) : r \in replies, f \in Faults \cup {None}}

FaultyProcessMessage ==
    /\ bot = "slackbot"
    /\ phase = "serving"
    /\ msgs < MaxMsgs
    /\ \E k \in Keys, text \in Texts, r1 \in Responses(FaultReplies, PlainReply) :
          LET P(r2) == process_message(pending_requests, conversations, tools, srv,
                                       allowed_tools, k[1], k[2], text, r1, r2, "ok")
          IN  \E p1 \in {P(r1)} :
              \E r2 \in (IF AsksTwice(p1) THEN Responses(FaultReplies, PlainReply)
                          ELSE {r1}) :
              \E p2 \in {IF r2 = r1 THEN p1 ELSE P(r2)}, fails \in 0..SayAttempts :
              \E res \in {process_message_say(p2, pending_requests, k[1], fails)} :
                  /\ pending_requests' = res.pending
                  /\ conversations' = res.conversations
                  /\ last' = res.last
                  /\ unitOut' = res.said
    /\ msgs' = msgs + 1
    /\ UNCHANGED <<unitIn, inflight, allowVars, rtVars, cfgVars, bootVars>>

FaultySlackBotProcessMessage ==
    /\ bot = "slack_bot"
    /\ phase = "serving"
    /\ msgs < MaxMsgs
    /\ \E k \in Keys, text \in Texts,
          r \in Responses(FaultJsonReplies, BrokenJson("none")) :
          \E p \in {slack_bot_process_message(pending_requests, conversations, tools,
                                              srv, allowed_tools, k[1], k[2], text, r,
                                              "ok")}, fails \in 0..SayAttempts :
          \E res \in {slack_bot_process_message_say(p, pending_requests, k[1], fails)} :
              /\ pending_requests' = res.pending
              /\ conversations' = res.conversations
              /\ last' = res.last
              /\ unitOut' = res.said
    /\ msgs' = msgs + 1
    /\ UNCHANGED <<unitIn, inflight, allowVars, rtVars, cfgVars, bootVars>>

NextFaults == StartBot \/ FaultyProcessMessage \/ FaultySlackBotProcessMessage

SpecFaults == Init /\ [][NextFaults]_vars

\* ---- SpecRace: message handlers of one channel that interleave ----
\* Every handler is a task of its own and is suspended at its first oracle
\* call, after it has looked for a pending request of the channel; when the
\* oracle answers it runs on from the state it then finds.
RaceMsgs == 3

RaceHandlers == 2

RaceKeys == {<<"C", "U">>, <<"C", "V">>}

RaceTexts == {"AAPL"}

\* utils/slackbot.py:161-406 from the first await on.  `seen` is the pending
\* request found at 191-193 before the await, pend and conv the state when
\* the handler runs on.  The handler leaves the request of the channel alone
\* when it says a further question (202-206) or when the intent analysis
\* stores none.
process_message_resume(seen, pend, conv, ts, srvs, allowLists, c, u, text, r1, r2) ==
    LET res == process_message([pend EXCEPT ![c] = seen], conv, ts, srvs, allowLists,
                               c, u, text, r1, r2, "ok")
        route == res.last.route
        untouched == IF route[1] = "clarification"
                     THEN Len(route) = 1 /\ Truthy(res.last.decisions[1].clar)
                     ELSE res.pending[c] = seen
    IN  [pending |-> IF untouched THEN pend ELSE res.pending,
         conversations |-> res.conversations,
         last |-> res.last,
         failed |-> FALSE]

\* utils/slack_bot.py:88-164 from the first await on.  In the branch of a
\* pending request `del self.pending_requests[channel]` (121, 124) comes after
\* the say and raises KeyError when the entry is gone; the except clause
\* (162-164) then says the generic text.
slack_bot_process_message_resume(seen, pend, conv, ts, srvs, allowLists, c, u, text, r) ==
    LET res == slack_bot_process_message([pend EXCEPT ![c] = seen], conv, ts, srvs,
                                         allowLists, c, u, text, r, "ok")
    IN  IF seen # NoPending /\ pend[c] = NoPending
        THEN [pending |-> pend,
              conversations |-> res.conversations,
              last |-> Said(res.last, "Sorry, something went wrong"),
              failed |-> TRUE]
        ELSE [pending |-> IF seen = NoPending /\ res.pending[c] = seen
                          THEN pend ELSE res.pending,
              conversations |-> res.conversations,
              last |-> res.last,
              failed |-> FALSE]

\* The handlers that have run to their end, oldest first.
Done == IF unitOut.op = "race" THEN unitOut.done ELSE << >>

\* A handler that has ended: the number of its message, the number of
\* messages received when it ended, what it did and whether an exception
\* reached its outer except clause.
Ended(h, res) == [id |-> h.id, at |-> msgs, trace |-> res.last, failed |-> res.failed]

Without(seq, i) == [j \in 1..(Len(seq) - 1) |-> IF j < i THEN seq[j] ELSE seq[j + 1]]

RaceStart == StartWith(<<StartEnv("ok", "none", TRUE), StartEnv("ok", "none", TRUE)>>, TRUE)

\* A message event arrives: the handler reads the pending request of the
\* channel and awaits the oracle.
RaceBegin ==
    /\ phase = "serving"
    /\ msgs < RaceMsgs
    /\ Len(inflight) < RaceHandlers
    /\ \E k \in RaceKeys, text \in RaceTexts :
          inflight' = Append(inflight, [id |-> msgs + 1, key |-> k, text |-> text,
                                        seen |-> pending_requests[k[1]]])
    /\ msgs' = msgs + 1
    /\ UNCHANGED <<unitIn, unitOut, allowVars, rtVars, cfgVars, bootVars,
                   pending_requests, conversations, last>>

RaceResume ==
    /\ bot = "slackbot"
    /\ \E i \in DOMAIN inflight, r1 \in FaultReplies :
          LET h == inflight[i]
              P(r2) == process_message_resume(h.seen, pending_requests, conversations,
                                              tools, srv, allowed_tools, h.key[1],
                                              h.key[2], h.text, r1, r2)
          IN  \E p1 \in {P(r1)} :
              \E r2 \in (IF AsksTwice(p1) THEN FaultReplies ELSE {r1}) :
              \E res \in {IF r2 = r1 THEN p1 ELSE P(r2)} :
                  /\ pending_requests' = res.pending
                  /\ conversations' = res.conversations
                  /\ last' = res.last
                  /\ unitOut' = [op |-> "race", done |-> Append(Done, Ended(h, res))]
                  /\ inflight' = Without(inflight, i)
    /\ UNCHANGED <<unitIn, msgs, allowVars, rtVars, cfgVars, bootVars>>

RaceResumeSlackBot ==
    /\ bot = "slack_bot"
    /\ \E i \in DOMAIN inflight, r \in FaultJsonReplies :
          LET h == inflight[i]
          IN  \E res \in {slack_bot_process_message_resume(
                              h.seen, pending_requests, conversations, tools, srv,
                              allowed_tools, h.key[1], h.key[2], h.text, r)} :
                  /\ pending_requests' = res.pending
                  /\ conversations' = res.conversations
                  /\ last' = res.last
                  /\ unitOut' = [op |-> "race", done |-> Append(Done, Ended(h, res))]
                  /\ inflight' = Without(inflight, i)
    /\ UNCHANGED <<unitIn, msgs, allowVars, rtVars, cfgVars, bootVars>>

NextRace == RaceStart \/ RaceBegin \/ RaceResume \/ RaceResumeSlackBot

SpecRace == Init /\ [][NextRace]_vars

\* ---- SpecLife: one server session of each class from start to stop ----
\* servers/mcp_client.py:22-26  MCPSession.__init__
NewMCPSession == [session |-> None, http_ctx |-> None, session_ctx |-> None]

McpOutcomes == {"probe_fail", "http_enter_fail", "session_enter_fail", "init_fail", "ok"}

\* servers/mcp_client.py:28-61  MCPSession.connect: nothing is undone when a
\* step fails, and self.session is assigned before initialize() is awaited.
MCPSession_connect(sv, outcome) ==
    CASE outcome = "probe_fail" ->
            [sv |-> sv, ok |-> FALSE, steps |-> ConnectSteps(HttpOrder, 1)]
      [] outcome = "http_enter_fail" ->
            [sv |-> [sv EXCEPT !.http_ctx = "created"], ok |-> FALSE,
             steps |-> ConnectSteps(HttpOrder, 2)]
      [] outcome = "session_enter_fail" ->
            [sv |-> [sv EXCEPT !.http_ctx = "entered", !.session_ctx = "created"],
             ok |-> FALSE, steps |-> ConnectSteps(HttpOrder, 3)]
      [] outcome = "init_fail" ->
            [sv |-> [sv EXCEPT !.http_ctx = "entered", !.session_ctx = "entered",
                               !.session = "uninitialized"],
             ok |-> FALSE, steps |-> ConnectSteps(HttpOrder, 4)]
      [] OTHER ->
            [sv |-> [sv EXCEPT !.http_ctx = "entered", !.session_ctx = "entered",
                               !.session = "session"],
             ok |-> TRUE, steps |-> ConnectSteps(HttpOrder, 0)]

\* servers/mcp_client.py:63-94  MCPSession.call: connects first when there is
\* no session; `connects` counts the connection attempts the call made.
MCPSession_call(sv, outcome) ==
    IF sv.session = None
    THEN LET c == MCPSession_connect(sv, outcome)
         IN  [sv |-> c.sv, connects |-> 1, steps |-> c.steps,
              result |-> IF c.ok THEN "result" ELSE None]
    ELSE [sv |-> sv, connects |-> 0, steps |-> << >>,
          result |-> IF sv.session = "session" THEN "result" ELSE None]

\* The context managers a session object of each class keeps, in the order
\* in which its stop() / cleanup() / close() exits them.
Handles(impl) ==
    IF impl = "utils" THEN << "session_ctx", "http_ctx", "stdio_ctx" >>
    ELSE IF impl = "main" THEN << "session", "stack" >>
    ELSE << "session_ctx", "http_ctx" >>

\* The handles named in `order` that the object holds.
HeldOf(sv, order) == SelectSeq(order, LAMBDA f : sv[f] # None)

\* servers/mcp_client.py:96-113  MCPSession.close: each context in a try of
\* its own; the fields keep their values.
MCPSession_close(sv, fails) ==
    [sv |-> sv, exits |-> HeldOf(sv, Handles("mcp_client"))]

\* utils/server.py:163-172  Server.stop: one try around the three exits, so
\* the first __aexit__ that raises ends the method; the fields keep their
\* values.
RECURSIVE Server_stop_exits(_, _)
Server_stop_exits(held, fails) ==
    IF held = << >> THEN << >>
    ELSE IF Head(held) \in fails THEN << Head(held) >>
    ELSE << Head(held) >> \o Server_stop_exits(Tail(held), fails)

Server_stop(sv, fails) ==
    [sv |-> sv,
     exits |-> Server_stop_exits(HeldOf(sv, Handles("utils")), fails)]

\* main.py:139-158  Server.cleanup with the exits it makes: each handle in a
\* try of its own and set to None afterwards.
main_Server_cleanup_exits(sv, fails) ==
    [sv |-> main_Server_cleanup(sv), exits |-> HeldOf(sv, Handles("main"))]

Impls == {"utils", "main", "mcp_client"}

HandleNames == {"session", "stack", "session_ctx", "http_ctx", "stdio_ctx"}

MaxStops == 2

MaxUses == 2

NewLife(impl) ==
    [op |-> "life",
     sv |-> IF impl = "utils" THEN NewServer
            ELSE IF impl = "main" THEN NewMainServer ELSE NewMCPSession,
     started |-> FALSE,      \* start()/connect() was called
     failed |-> FALSE,       \* and it failed
     connects |-> 0,         \* connection attempts made so far
     prior |-> None,         \* the object before its last connection attempt
     steps |-> << >>,        \* the steps of its last connection attempt
     stops |-> << >>,        \* the stop()/cleanup()/close() calls
     uses |-> << >>]         \* the list/call requests

InitLife ==
    /\ unitIn \in [op : {"life"}, impl : Impls, is_http : BOOLEAN]
    /\ unitOut = NewLife(unitIn.impl)
    /\ inflight = << >>
    /\ IdleAllow /\ IdleRun /\ IdleBot

\* start() of a Server, connect() of an MCPSession
LifeStart ==
    /\ ~unitOut.started
    /\ \E e \in StartEnvs(unitIn.is_http), m \in MainOutcomes, c \in McpOutcomes :
          \E r \in {IF unitIn.impl = "utils"
                     THEN Server_start(unitOut.sv, unitIn.is_http, e.outcome, e.exitFail)
                     ELSE IF unitIn.impl = "main"
                     THEN main_Server_start(unitOut.sv, m)
                     ELSE LET x == MCPSession_connect(unitOut.sv, c)
                          IN  [sv |-> x.sv, raised |-> ~x.ok, steps |-> x.steps]} :
              unitOut' = [unitOut EXCEPT !.sv = r.sv, !.started = TRUE,
                                         !.prior = unitOut.sv,
                                         !.steps = IF unitIn.impl = "main" THEN << >>
                                                   ELSE r.steps,
                                         !.failed = r.raised \/ r.sv.session # "session",
                                         !.connects = 1]
    /\ UNCHANGED <<unitIn, inflight, allowVars, rtVars, cfgVars, bootVars, convVars>>

\* stop() / cleanup() / close(); `fails` are the handles whose __aexit__ raises
LifeStop ==
    /\ Len(unitOut.stops) < MaxStops
    /\ \E fails \in SUBSET HandleNames :
          \E r \in {IF unitIn.impl = "utils" THEN Server_stop(unitOut.sv, fails)
                     ELSE IF unitIn.impl = "main"
                     THEN main_Server_cleanup_exits(unitOut.sv, fails)
                     ELSE MCPSession_close(unitOut.sv, fails)} :
              unitOut' = [unitOut EXCEPT
                  !.sv = r.sv,
                  !.stops = Append(@, [held |-> HeldOf(unitOut.sv, Handles(unitIn.impl)),
                                       exits |-> r.exits,
                                       connects |-> unitOut.connects])]
    /\ UNCHANGED <<unitIn, inflight, allowVars, rtVars, cfgVars, bootVars, convVars>>

\* get_tools() / run_tool() of a Server, call() of an MCPSession
LifeUse ==
    /\ Len(unitOut.uses) < MaxUses
    /\ \E method \in {"list_tools", "call_tool"}, c \in McpOutcomes :
          \E r \in {IF unitIn.impl = "utils"
                     THEN [sv |-> unitOut.sv, connects |-> 0,
                           result |-> IF method = "list_tools"
                                      THEN (IF Server_get_tools(unitOut.sv, 1, {}, TRUE) = << >>
                                            THEN None ELSE "result")
                                      ELSE (IF Server_run_tool(unitOut.sv.session,
                                                               << "ok" >>).val.tag = "content"
                                            THEN "result" ELSE None)]
                     ELSE IF unitIn.impl = "main"
                     THEN [sv |-> unitOut.sv, connects |-> 0,
                           result |-> IF method = "list_tools"
                                      THEN (IF main_Server_get_tools(unitOut.sv, 1, TRUE) = << >>
                                            THEN None ELSE "result")
                                      ELSE (IF main_Server_run_tool(
                                                   unitOut.sv.session,
                                                   [i \in 1..MainAttempts |-> "ok"]).kind = "raise"
                                            THEN None ELSE "result")]
                     ELSE MCPSession_call(unitOut.sv, c)} :
              unitOut' = [unitOut EXCEPT
                  !.sv = r.sv,
                  !.prior = IF r.connects > 0 THEN unitOut.sv ELSE @,
                  !.steps = IF r.connects > 0 THEN r.steps ELSE @,
                  !.connects = @ + r.connects,
                  !.uses = Append(@, [method |-> method, connects |-> r.connects,
                                      result |-> r.result,
                                      after_failure |-> unitOut.failed])]
    /\ UNCHANGED <<unitIn, inflight, allowVars, rtVars, cfgVars, bootVars, convVars>>

NextLife == LifeStart \/ LifeStop \/ LifeUse

SpecLife == InitLife /\ [][NextLife]_vars

\* ---- SpecMain: the bot of main.py, start-up and conversations ----
MainStartEnvs == {StartEnv(o, "none", o = "ok") : o \in MainOutcomes}

InitMain ==
    /\ IdleAllow /\ IdleRun /\ IdleUnit
    /\ bot = "main"
    /\ is_http = [s \in Servers |-> FALSE]
    /\ allowed_tools \in [Servers -> {{}, {"b"}}]
    /\ srv = [s \in Servers |-> NewMainServer]
    /\ tools = << >>
    /\ all_tools = << >>
    /\ startLog = [s \in Servers |-> NotStarted]
    /\ phase = "init"
    /\ pending_requests = [c \in Channels |-> NoPending]
    /\ conversations = [c \in Channels |-> << >>]
    /\ last = NoTrace
    /\ msgs = 0

\* main.py:222-269  SlackBot.start
MainStart ==
    /\ phase = "init"
    /\ \E e1 \in MainStartEnvs, e2 \in MainStartEnvs, authOk \in BOOLEAN :
          LET st == main_start_loop(1, [srv |-> srv, tools |-> tools, log |-> startLog],
                                    <<e1, e2>>)
          IN  /\ srv' = st.srv
              /\ tools' = st.tools
              /\ startLog' = st.log
              /\ phase' = IF authOk THEN "serving" ELSE "auth_failed"
    /\ UNCHANGED <<allowVars, rtVars, unitVars, cfgVars, all_tools, convVars>>

\* One message event handled by main.py's process_message.  The transport's
\* answers to call_tool are chosen only in the calls that reach run_tool.
MainProcessMessage ==
    /\ phase = "serving"
    /\ msgs < MaxMsgs
    /\ \E k \in Keys, text \in Texts, r \in MainReplies :
          LET P(script) == main_process_message(conversations, tools, srv, k[1], k[2],
                                                text, r, script)
              quiet == [i \in 1..MainAttempts |-> "ok"]
          IN  \E p1 \in {P(quiet)} :
              \E script \in (IF CallsTool(p1) THEN [1..MainAttempts -> Outcomes]
                              ELSE {quiet}) :
              \E res \in {IF script = quiet THEN p1 ELSE P(script)} :
                  /\ conversations' = res.conversations
                  /\ last' = res.last
    /\ msgs' = msgs + 1
    /\ UNCHANGED <<allowVars, rtVars, unitVars, cfgVars, bootVars, pending_requests>>

NextMain == MainStart \/ MainProcessMessage

SpecMain == InitMain /\ [][NextMain]_vars

\* ---- SpecValidate: one validate_tool_call on every schema and arguments ----
InitValidate ==
    /\ unitIn \in [op : {"validate"}, tool_name : {"a"}, args : SchemaArgs,
                    schema : Schemas]
    /\ unitOut = NoUnit
    /\ inflight = << >>
    /\ IdleAllow /\ IdleRun /\ IdleBot

Validate ==
    /\ unitOut = NoUnit
    /\ unitOut' = [op |-> "validate",
                   result |-> ElicitationHandler_validate_tool_call(
                                  unitIn.tool_name, unitIn.args, unitIn.schema)]
    /\ UNCHANGED <<unitIn, inflight, allowVars, rtVars, cfgVars, bootVars, convVars>>

NextValidate == Validate

SpecValidate == InitValidate /\ [][NextValidate]_vars

\* ---- SpecArgs: the two ways the bots cut a JSON object out of a reply ----
\* The characters of a reply that matter to the cut: the two braces, and "x"
\* for any other character.
ArgChars == {"{", "}", "x"}

MaxArgText == 5

ArgStrings == UNION {[1..n -> ArgChars] : n \in 0..MaxArgText}

\* What a search gives: the span start..end of the text (both inclusive), or
\* why there is none.
Span(start, end) == [kind |-> "span", start |-> start, end |-> end]

NoSpan(kind) == [kind |-> kind, start |-> 0, end |-> 0]

\* utils/elicitation.py:177  re.search(r'\{[^{}]*\}', args_str): the leftmost
\* "{" that is closed by a "}" with no brace in between.
re_search(text) ==
    LET matches == {m \in (1..Len(text)) \X (1..Len(text)) :
                        /\ m[1] < m[2]
                        /\ text[m[1]] = "{" /\ text[m[2]] = "}"
                        /\ \A k \in (m[1] + 1)..(m[2] - 1) : text[k] = "x"}
    IN  IF matches = {} THEN NoSpan("none")
        ELSE LET m == CHOOSE m \in matches : \A o \in matches : m[1] <= o[1]
             IN  Span(m[1], m[2])

\* utils/slack_bot.py:214-223  the loop `for i in range(start, len(cleaned))`
RECURSIVE brace_scan(_, _, _)
brace_scan(cleaned, i, brace_count) ==
    IF i > Len(cleaned) THEN [brace_count |-> brace_count, end |-> 0]
    ELSE IF cleaned[i] = "{" THEN brace_scan(cleaned, i + 1, brace_count + 1)
    ELSE IF cleaned[i] = "}"
         THEN IF brace_count - 1 = 0 THEN [brace_count |-> 0, end |-> i]
              ELSE brace_scan(cleaned, i + 1, brace_count - 1)
    ELSE brace_scan(cleaned, i + 1, brace_count)

\* utils/slack_bot.py:207-231  the JSON object _analyze_intent hands to
\* json.loads
find_json_object(cleaned) ==
    LET opens == {i \in 1..Len(cleaned) : cleaned[i] = "{"}
    IN  IF opens = {} THEN NoSpan("none")
        ELSE LET start == CHOOSE i \in opens : \A o \in opens : i <= o
                 scan == brace_scan(cleaned, start, 0)
             IN  IF scan.brace_count # 0 THEN NoSpan("unbalanced")
                 ELSE Span(start, scan.end)

InitArgs ==
    /\ unitIn \in [op : {"args"}, text : ArgStrings]
    /\ unitOut = NoUnit
    /\ inflight = << >>
    /\ IdleAllow /\ IdleRun /\ IdleBot

\* Both bots cut the arguments out of the same text.
ExtractArgs ==
    /\ unitOut = NoUnit
    /\ unitOut' = [op |-> "args",
                   elicitation |-> re_search(unitIn.text),
                   slack_bot |-> find_json_object(unitIn.text)]
    /\ UNCHANGED <<unitIn, inflight, allowVars, rtVars, cfgVars, bootVars, convVars>>

NextArgs == ExtractArgs

SpecArgs == InitArgs /\ [][NextArgs]_vars

\* ---- SpecInterpret: the prompts execute_tool picks for one tool result ----
\* utils/prompt_manager.py:144  thresholds.get("large_response_chars", 2000)
DefaultThreshold == 2000

\* The thresholds section of the prompts configuration, as a set of
\* <<key, value>> pairs: without the key, or with another value.
ConfiguredThreshold == 1990

Thresholds == {{}, {<<"large_response_chars", ConfiguredThreshold>>}}

\* thresholds.get("large_response_chars", 2000)
ThresholdOf(thresholds) ==
    IF thresholds = {} THEN DefaultThreshold
    ELSE (CHOOSE pair \in thresholds : pair[1] = "large_response_chars")[2]

\* Result lengths on both sides of either threshold.
LenMargin == 15

ResultLens == (ConfiguredThreshold - LenMargin)..(DefaultThreshold + LenMargin)

\* The keys a server's entry of server_prompts may hold (no entry is the
\* same as an entry without keys).
ServerPromptKeys == {"system_interpret_result", "user_interpret_result"}

\* utils/prompt_manager.py:142-145  PromptManager.is_large_result
is_large_result(len, thresholds) ==
    LET threshold == ThresholdOf(thresholds)
    IN  len > threshold

\* utils/prompt_manager.py:77-98  PromptManager.get_system_interpret_prompt:
\* which text is returned.
get_system_interpret_prompt(server_config, is_large) ==
    IF "system_interpret_result" \in server_config THEN "server_prompts.system_interpret_result"
    ELSE IF is_large THEN "defaults.system_interpret_large"
    ELSE "defaults.system_interpret_result"

\* utils/prompt_manager.py:100-140  PromptManager.get_user_interpret_prompt:
\* which template is filled in.
get_user_interpret_prompt(server_config, is_large) ==
    IF "user_interpret_result" \in server_config THEN "server_prompts.user_interpret_result"
    ELSE IF is_large THEN "defaults.user_interpret_large"
    ELSE "defaults.user_interpret_result"

InitInterpret ==
    /\ unitIn \in [op : {"interpret"}, len : ResultLens, thresholds : Thresholds,
                    server_config : SUBSET ServerPromptKeys]
    /\ unitOut = NoUnit
    /\ inflight = << >>
    /\ IdleAllow /\ IdleRun /\ IdleBot

\* utils/slackbot.py:442-460  execute_tool choosing the two prompts for a
\* result text of unitIn.len characters that came from a server whose entry
\* of server_prompts is unitIn.server_config.
Interpret ==
    /\ unitOut = NoUnit
    /\ \E is_large \in {is_large_result(unitIn.len, unitIn.thresholds)} :
          unitOut' = [op |-> "interpret",
                      is_large |-> is_large,
                      system_prompt |-> get_system_interpret_prompt(unitIn.server_config, is_large),
                      user_prompt |-> get_user_interpret_prompt(unitIn.server_config, is_large)]
    /\ UNCHANGED <<unitIn, inflight, allowVars, rtVars, cfgVars, bootVars, convVars>>

NextInterpret == Interpret

SpecInterpret == InitInterpret /\ [][NextInterpret]_vars

(***************************************************************************)
(* 8. The properties.                                                      *)
(***************************************************************************)
ReportedNames(s) == {Reported[s][i] : i \in 1..Len(Reported[s])}

\* The allow-list rule as the design states it: an empty list allows every
\* tool, a non-empty list allows its members.
ListAllows(list, name) == list = {} \/ name \in list

\* The server a catalog entry came from allows it.
OwnServerAllows(t) == ListAllows(allowed_tools[t.server_name], t.name)

\* A server that is Ready and denies one of the tools it reports.
ReadyAndDenying(s) ==
    srv[s].session # None /\ \E n \in ReportedNames(s) : ~ListAllows(allowed_tools[s], n)

Denied(name) ==
    /\ \E s \in Servers : name \in ReportedNames(s)
    /\ \A s \in Servers : name \in ReportedNames(s) => ~ListAllows(allowed_tools[s], name)

Refusals == {"Sorry, the tool is not available or not allowed.", "Sorry, couldn't find tool"}

\* C2: executing a tool that the allow-lists deny answers with a refusal and
\* makes no call on any server session, neither list_tools nor call_tool.
C2_DeniedToolMakesNoSessionCall ==
    \A i \in 1..Len(last.executed) :
        Denied(last.executed[i].tool) =>
            /\ last.calls = << >>
            /\ \A j \in 1..Len(last.say) : last.say[j] \in Refusals

\* C3: on each discovery path the decision is "allowed" exactly when the
\* server's allow-list is empty or absent or holds the tool's name.
C3_AllowedIffEmptyOrMember ==
    allowOut # NoDecision =>
        (allowOut.allowed <=>
            (~allowIn.cfg.has \/ ListAllows(allowIn.cfg.list, allowIn.name)))

\* C4: whichever servers fail to start, start-up starts every server, every
\* server whose start() succeeded is Ready, and the bot goes on to serve
\* (it stops only when Slack authentication fails).
C4_FailedServersDoNotStopStartup ==
    phase # "init" =>
        /\ phase \in {"serving", "auth_failed"}
        /\ \A s \in Servers : startLog[s] # NotStarted
        /\ \A s \in Servers : startLog[s].outcome = "ok" => srv[s].session # None

\* C4 witness: the first server's start() raised (no URL, no command), the
\* second server is Ready and the bot serves.
C4_Witness ==
    /\ phase = "serving"
    /\ startLog[1].outcome \in {"no_url", "no_command"}
    /\ startLog[2].outcome = "ok"
    /\ srv[2].session # None

\* The number of tools server s reports that its allow-list allows.
AllowedReported(s) ==
    Cardinality({i \in 1..Len(Reported[s]) : ListAllows(allowed_tools[s], Reported[s][i])})

\* What the Ready servers whose list_tools answered contribute to the catalog.
RECURSIVE ExpectedCatalogSize(_)
ExpectedCatalogSize(i) ==
    IF i > Len(ServerOrder)
    THEN 0
    ELSE (IF srv[ServerOrder[i]].session # None /\ startLog[ServerOrder[i]].listOk
          THEN AllowedReported(ServerOrder[i]) ELSE 0)
         + ExpectedCatalogSize(i + 1)

\* C5: after start-up the catalog holds as many tools as the Ready servers
\* report and allow, summed over those servers.
C5_CatalogSizeIsSumOverReady ==
    phase # "init" => Len(tools) = ExpectedCatalogSize(1)

\* C6: on a connected server, a first attempt that fails transiently followed
\* by a second attempt that succeeds makes run_tool return the second
\* attempt's result.
C6_RetryThenSucceedReturnsSecond ==
    (/\ rtOut # NoRun
     /\ rtIn.session # None
     /\ rtIn.script[1] = "transient"
     /\ rtIn.script[2] = "ok")
    => (rtOut.kind = "return" /\ rtOut.attempts = 2 /\ rtOut.val.attempt = 2)

\* C7: one run_tool makes at most two attempts, and when two attempts were
\* made and both failed the caller gets the second attempt's failure itself.
C7_AtMostTwoAttempts ==
    rtOut # NoRun =>
        /\ rtOut.attempts <= 2
        /\ (rtOut.attempts = 2 /\ Raises(rtIn.script[1]) /\ Raises(rtIn.script[2]))
              => (rtOut.kind = "raise" /\ rtOut.val = [tag |-> rtIn.script[2], attempt |-> 2])

\* C7 witness: main.py's run_tool failed twice, the third call of the
\* transport would have succeeded, and the second failure was raised.
C7_Witness ==
    /\ rtOut.impl = "main"
    /\ rtOut.attempts = 2
    /\ rtOut.kind = "raise"
    /\ rtIn.script[1] = "transient" /\ rtIn.script[2] = "transient" /\ rtIn.script[3] = "ok"

\* C8: a call rejected for its arguments on the first attempt is attempted
\* exactly once.
C8_RejectedCallIsNotResent ==
    (rtOut # NoRun /\ rtIn.session # None /\ rtIn.script[1] = "rejected")
    => rtOut.attempts = 1

\* C9: while a clarification asked of user U is pending in channel C (V has
\* not spoken there yet), a message of user V in channel C goes to fresh
\* intent analysis, not to clarification resolution.
C9_OtherUserGetsFreshIntentAnalysis ==
    [][ (/\ pending_requests["C"] # NoPending
         /\ conversations[<<"C", "V">>] = << >>
         /\ conversations[<<"C", "U">>] # << >>
         /\ msgs' = msgs + 1
         /\ last'.key = <<"C", "V">>)
        => last'.route = << "intent" >> ]_vars

\* C10: handling a message of one conversation key leaves the history and the
\* pending clarification of every other key as they were, also of the keys
\* in the same channel.
C10_OtherKeysUnchanged ==
    [][ \A k \in Keys :
          (msgs' = msgs + 1 /\ last'.key = k) =>
              \A k2 \in Keys \ {k} :
                  /\ conversations'[k2] = conversations[k2]
                  /\ pending_requests'[k2[1]] = pending_requests[k2[1]] ]_vars

\* A message was handled by one of the two bots of utils.
Handled == last # NoTrace /\ bot \in {"slackbot", "slack_bot"}

\* The channel of the message handled last.
LastChannel == last.key[1]

\* C11: a channel holds at most one pending clarification, and every message
\* that arrives while one is pending goes to clarification resolution first,
\* never straight to fresh intent analysis; a message that arrives while none
\* is pending goes to intent analysis.
C11_PendingRoutesToClarification ==
    /\ DOMAIN pending_requests = Channels
    /\ Handled =>
          IF last.before # NoPending
          THEN last.route[1] = "clarification"
          ELSE last.route = << "intent" >>

\* C11 witness: a message arrived while a clarification was pending, went to
\* clarification resolution only, and the request is still pending.
C11_Witness ==
    /\ Handled
    /\ last.before # NoPending
    /\ last.route = << "clarification" >>
    /\ pending_requests[LastChannel] = last.before

\* What a decision (tool_name, args, clarification) asks for.
Kind(d) ==
    IF Truthy(d.clar) THEN "Clarify"
    ELSE IF d.tool = "GREETING" THEN "Greeting"
    ELSE IF Truthy(d.tool) /\ d.hasArgs THEN "Execute"
    ELSE "Refuse"

\* The message handled last found its channel Idle; its decision is the one
\* intent analysis gave.
FromIdle == Handled /\ last.before = NoPending

\* C12: after an utterance handled from Idle, a clarification is pending with
\* the question asked when the decision is Clarify; nothing is pending when
\* the decision is Refuse or Greeting; and when the decision is Execute
\* nothing is pending and the tool was invoked, unless the schema check of
\* the required parameters found one missing and turned it into Clarify.
C12_IdleUtteranceOutcome ==
    FromIdle =>
        LET d == last.decisions[1]
            p == pending_requests[LastChannel]
        IN  /\ Kind(d) = "Clarify" => (p # NoPending /\ p.question = d.clar)
            /\ Kind(d) \in {"Refuse", "Greeting"} => (p = NoPending /\ last.executed = << >>)
            /\ Kind(d) = "Execute" =>
                  \/ p = NoPending /\ last.executed = << [tool |-> d.tool, args |-> d.args] >>
                  \/ /\ validate_tool_call(d.tool, d.args) # {}
                     /\ p # NoPending /\ p.tool_name = d.tool
                     /\ last.executed = << >>

\* C12 witness: an utterance handled from Idle got the decision Clarify and
\* its question is pending.
C12_Witness ==
    /\ FromIdle
    /\ Kind(last.decisions[1]) = "Clarify"
    /\ pending_requests[LastChannel].question = last.decisions[1].clar

\* The message handled last found a clarification pending in its channel; its
\* first decision is the one clarification resolution gave.
FromAwaiting == Handled /\ last.before # NoPending

\* The call_tool calls of the message handled last.
CallToolCount == Cardinality({i \in 1..Len(last.calls) : last.calls[i].method = "call_tool"})

C14_ClarifyAgainReplacesQuestion ==
    (FromAwaiting /\ Kind(last.decisions[1]) = "Clarify") =>
        /\ pending_requests[LastChannel] # NoPending
        /\ pending_requests[LastChannel].tool_name = last.before.tool_name
        /\ pending_requests[LastChannel].question = last.decisions[1].clar

\* The bot of utils/slackbot.py resolved a pending clarification by asking
\* the oracle, whose reply is written with the markers of elicitation.py.
ResolvedByOracle == FromAwaiting /\ bot = "slackbot" /\ last.replies # << >>

\* The oracle's reply marks the user's text as unrelated.
MarkedUnrelated(r) == r.conv /\ ~r.greet

Marked(r) == ~r.greet /\ ~r.conv

\* The reply has a marker keyword but no line that starts with it.
KeywordWithoutLine(r) ==
    /\ Marked(r)
    /\ \/ r.clarifyKw /\ r.clarifyLine = NoLine
       \/ ~r.clarifyKw /\ r.toolKw /\ r.argsKw /\ r.toolLine = NoLine

\* The reply names a tool and its text after "ARGS:" is of the given kind.
ArgsOfKind(r, kind) ==
    /\ Marked(r)
    /\ ~r.clarifyKw /\ r.toolKw /\ r.argsKw /\ r.toolLine # NoLine
    /\ r.args.kind = kind

\* A reply no decision can be parsed from: for slackbot.py malformed markers,
\* for slack_bot.py a text that holds no JSON object.
Unparseable(r) ==
    IF bot = "slackbot"
    THEN KeywordWithoutLine(r) \/ ArgsOfKind(r, "invalid")
    ELSE r.kind # "object"

RephraseMessages ==
    { "I didn't understand. Could you please rephrase your response?",
      "I had trouble parsing the parameters. Could you rephrase your request?",
      "Could not parse that. Please try again or ask for help." }

\* C16: when the reply to a pending clarification cannot be parsed, the
\* pending request is cleared, the user is sent a "please rephrase" message,
\* and nothing is pending in the channel afterwards.
C16_UnparseableReplyClearsAndAsksToRephrase ==
    (FromAwaiting /\ last.replies # << >> /\ Unparseable(last.replies[1])) =>
        /\ pending_requests[LastChannel] = NoPending
        /\ \E i \in 1..Len(last.say) : last.say[i] \in RephraseMessages

IntentAnswered == FromIdle /\ last.replies # << >>

\* The reply's arguments open a brace that is never closed.
UnbalancedBraces(r) ==
    IF bot = "slackbot" THEN ArgsOfKind(r, "unbalanced") ELSE r.kind = "unbalanced"

\* The utterance ended as a refusal: the decision is Refuse, no tool was run
\* and nothing is pending in the channel.
EndedAsRefusal ==
    /\ Kind(last.decisions[1]) = "Refuse"
    /\ last.executed = << >>
    /\ pending_requests[LastChannel] = NoPending

\* C18: a reply to the intent prompt whose arguments hold unbalanced braces
\* yields the decision Refuse: no tool is executed and no clarification is
\* recorded.
C18_UnbalancedBracesRefuse ==
    (IntentAnswered /\ UnbalancedBraces(last.replies[1])) => EndedAsRefusal

\* The reply holds the expected markers in malformed form: arguments that
\* are not JSON, or a marker keyword with no line starting with it.
MalformedMarkers(r) ==
    IF bot = "slackbot"
    THEN KeywordWithoutLine(r) \/ ArgsOfKind(r, "invalid")
    ELSE r.kind = "invalid"

\* C19: a reply to the intent prompt that holds the expected markers in
\* malformed form is treated as Refuse: it produces no tool call and no
\* pending clarification.
C19_MalformedMarkersRefuse ==
    (IntentAnswered /\ MalformedMarkers(last.replies[1])) => EndedAsRefusal

\* The reply names a tool that is not in the catalog.
NamesToolOutsideCatalog(r) ==
    IF bot = "slackbot"
    THEN Marked(r) /\ r.toolKw /\ r.toolLine # NoLine /\ r.toolLine \notin ToolNamesOf(tools)
    ELSE /\ r.kind = "object"
         /\ Truthy(r.tool_name) /\ r.tool_name # "GREETING"
         /\ r.tool_name \notin ToolNamesOf(tools)

\* C20: when the oracle's reply to the intent prompt names a tool that is not
\* in the allowed catalog, the utterance ends as a refusal: no session call
\* is made for any tool and no clarification is pending in the channel.
C20_ToolOutsideCatalogIsRefused ==
    (IntentAnswered /\ NamesToolOutsideCatalog(last.replies[1])) =>
        /\ last.calls = << >>
        /\ pending_requests[LastChannel] = NoPending

\* ---- C21 ----
RequiredKeys == {unitIn.schema.required[i] : i \in DOMAIN unitIn.schema.required}

AbsentKeys == {p \in RequiredKeys : \A pair \in unitIn.args : pair[1] # p}

Validated == unitOut.op = "validate"

\* C21: for every required list R and every argument mapping A,
\* validate_tool_call returns no question when every key of R is a key of A,
\* and otherwise a question about the tool that lists exactly the keys of R
\* absent from A, each once, each with the description the schema declares
\* for it; the result is a function of the schema and A alone.
C21_ValidateListsExactlyMissingRequired ==
    Validated =>
        LET q == unitOut.result
        IN  /\ (AbsentKeys = {}) = ~q.asked
            /\ q.asked =>
                /\ q.tool = unitIn.tool_name
                /\ {q.lines[i].param : i \in DOMAIN q.lines} = AbsentKeys
                /\ Len(q.lines) = Cardinality(AbsentKeys)
                /\ \A i \in DOMAIN q.lines :
                       LET p == q.lines[i].param
                       IN  (p \in DOMAIN unitIn.schema.properties
                            /\ unitIn.schema.properties[p] # NoDesc)
                           => q.lines[i].desc = unitIn.schema.properties[p]

\* two required parameters, one supplied, the other missing and described
C21_Witness ==
    /\ Validated
    /\ Len(unitIn.schema.required) = 2
    /\ AbsentKeys = {"symbol"}
    /\ unitOut.result.asked
    /\ unitOut.result.lines = <<[param |-> "symbol", desc |-> "ticker symbol"]>>

\* ---- C22 ----
\* The interpretation prompts of the last message that quote a tool result
\* whose text is empty.
EmptyResultsInterpreted ==
    {i \in DOMAIN last.prompts :
        /\ last.prompts[i].kind = "interpret"
        /\ last.prompts[i].result.text = ""}

\* C22: a tool call that returns empty text is answered with the fixed
\* 'executed but returned no data' message, and the oracle is not asked to
\* interpret that result.
C22_EmptyResultIsNotInterpreted ==
    last # NoTrace => EmptyResultsInterpreted = {}

\* ---- C23 ----
\* The texts that get_response returned in place of a response because the
\* oracle call failed, among the replies read for the last message.
OracleFailures ==
    {last.replies[i].text :
        i \in {j \in DOMAIN last.replies : "text" \in DOMAIN last.replies[j]}}

\* Every say of the last message went through.
SayWorked ==
    unitOut.op = "say" /\ \A i \in DOMAIN unitOut.attempts : ~unitOut.attempts[i].raised

\* C23: when an oracle call fails while a message is handled, the one text
\* the user receives for that message is the apology that stands for the
\* failed call.
C23_OracleFailureReachesUserAsApology ==
    (Handled /\ SayWorked /\ OracleFailures # {}) =>
        /\ Len(last.say) = 1
        /\ last.say[1] \in OracleFailures

\* ---- C24 ----
\* A fault was raised while the last message was handled.
FaultRaised ==
    /\ Handled
    /\ unitOut.op = "say"
    /\ \E i \in DOMAIN unitOut.attempts : unitOut.attempts[i].raised

\* C24: a fault raised while process_message handles a message does not
\* leave process_message, and the user is sent the generic 'something went
\* wrong' message for it.
C24_FaultBecomesGenericMessage ==
    FaultRaised =>
        /\ ~unitOut.escaped
        /\ last.say = << "Sorry, something went wrong" >>

\* ---- C25 ----
\* C25: every handled message results in exactly one say, also when the
\* handlers of several messages interleave.
C25_ExactlyOneSayPerMessage ==
    \A i \in DOMAIN Done : Len(Done[i].trace.say) = 1

\* ---- C26 ----
\* The smallest bound N the retention rule allows; main.py:317 sends the last
\* five turns to the oracle.
HistoryBound == 5

\* C26: the stored history of every conversation key holds at most N turns.
C26_HistoryIsBounded ==
    \A k \in DOMAIN conversations : Len(conversations[k]) <= HistoryBound

\* ---- C27 ----
Life == unitOut.op = "life"

\* C27: stop() / cleanup() / close() releases nothing on a session that was
\* never started, and a second call with no connection made in between
\* releases nothing again.
C27_StopIsIdempotent ==
    Life =>
        \A i \in DOMAIN unitOut.stops :
            /\ unitOut.stops[i].connects = 0 => unitOut.stops[i].exits = << >>
            /\ (i > 1 /\ unitOut.stops[i - 1].connects = unitOut.stops[i].connects)
                   => unitOut.stops[i].exits = << >>

\* ---- C28 ----
\* C28: closing a session attempts to close every handle it holds; an error
\* closing one does not keep the remaining ones from being closed.
C28_EveryHandleIsClosed ==
    (Life /\ unitOut.stops # << >>) =>
        LET first == unitOut.stops[1]
        IN  {first.exits[i] : i \in DOMAIN first.exits}
                = {first.held[i] : i \in DOMAIN first.held}

\* ---- C29 ----
\* C29: after a start or connect that failed, a list or call request fails or
\* returns nothing and makes no connection attempt.
C29_NoImplicitReconnect ==
    Life =>
        \A i \in DOMAIN unitOut.uses :
            unitOut.uses[i].after_failure =>
                /\ unitOut.uses[i].connects = 0
                /\ unitOut.uses[i].result = None

\* ---- C30 ----
\* Pairs of handlers of one channel that were in flight together and both
\* found the same pending request when they began; the first of the pair
\* ended first.
RacingPairs ==
    {p \in (DOMAIN Done) \X (DOMAIN Done) :
        /\ p[1] < p[2]
        /\ Done[p[2]].id <= Done[p[1]].at
        /\ Done[p[1]].trace.key[1] = Done[p[2]].trace.key[1]
        /\ Done[p[1]].trace.before # NoPending
        /\ Done[p[1]].trace.before = Done[p[2]].trace.before}

\* The handler took the stored request as answered by its message.
Consumed(e) == e.trace.route[1] = "clarification"

\* The tool invocations the handler made for the stored request.
ExecutedForPending(e) ==
    IF e.trace.route = << "clarification" >> THEN Len(e.trace.executed) ELSE 0

\* C30: of two messages of one channel handled concurrently while one
\* clarification is pending, at most one consumes the pending request, the
\* tool is executed at most once for it, and neither handler fails because
\* the other has cleared the slot.
C30_PendingConsumedOnce ==
    \A p \in RacingPairs :
        /\ ~(Consumed(Done[p[1]]) /\ Consumed(Done[p[2]]))
        /\ ExecutedForPending(Done[p[1]]) + ExecutedForPending(Done[p[2]]) <= 1
        /\ ~Done[p[1]].failed /\ ~Done[p[2]].failed

(***************************************************************************)
(* C31..C40                                                                *)
(***************************************************************************)
\* The prompts of the last call that ask the oracle what to do, and those
\* that ask it to explain a tool result.
DecidingPrompts == {i \in 1..Len(last.prompts) : last.prompts[i].kind \in {"intent", "clarify"}}

InterpretingPrompts == {i \in 1..Len(last.prompts) : last.prompts[i].kind = "interpret"}

\* C31: for any single utterance at most one oracle call decides the action
\* (execute, clarify or refuse) and at most one further oracle call
\* interprets a tool result.
C31_AtMostOneDecidingOracleCall ==
    Handled =>
        /\ Cardinality(DecidingPrompts) <= 1
        /\ Cardinality(InterpretingPrompts) <= 1

\* A reply to a clarification whose tool was not known when it was asked.
FromUnknown == FromAwaiting /\ bot = "slackbot" /\ last.before.tool_name = "unknown"

\* C32: when the pending clarification's tool name is "unknown",
\* clarification resolution re-runs the full intent analysis on the reply:
\* the prompt sent is the intent prompt listing the catalog, the decision is
\* the one parsed from the oracle's answer to it, and the tool-scoped
\* parameter-extraction prompt is not built.
C32_UnknownToolReanalysesIntent ==
    FromUnknown =>
        /\ last.route[1] = "clarification"
        /\ last.prompts # << >>
        /\ last.prompts[1] = Prompt("intent", ToolNamesOf(tools))
        /\ last.decisions[1] = parse_intent_response(last.replies[1], tools)
        /\ \A i \in 1..Len(last.prompts) : last.prompts[i].kind # "clarify"

\* C32 witness: a clarification without a tool was pending and the reply to
\* it was resolved to an execution of tool a by the intent prompt.
C32_Witness ==
    /\ FromUnknown
    /\ last.prompts[1].kind = "intent"
    /\ last.executed = << [tool |-> "a", args |-> {<<"symbol", "AAPL">>}] >>

\* The last connection attempt of an HTTP session of utils/server.py or of
\* servers/mcp_client.py, made as the callers make it: on an object that has
\* no session (a new one, or in call() under `if not self.session`).
HttpAttempt ==
    /\ Life /\ unitOut.started
    /\ unitOut.prior.session = None
    /\ \/ unitIn.impl = "mcp_client"
       \/ unitIn.impl = "utils" /\ unitIn.is_http

Negotiation == {"http_enter", "session_enter", "initialize"}

ProbeFailed == unitOut.steps # << >> /\ unitOut.steps[1] = Step("probe", FALSE)

\* C33: for an HTTP server the reachability probe happens before every step
\* of the protocol negotiation; when the probe fails the attempt ends there:
\* no stream or session context is opened by it and the session is not
\* connected.
C33_ProbePrecedesNegotiation ==
    HttpAttempt =>
        /\ \A i \in 1..Len(unitOut.steps) :
              unitOut.steps[i].step \in Negotiation =>
                  \E j \in 1..(i - 1) : unitOut.steps[j] = Step("probe", TRUE)
        /\ ProbeFailed =>
              /\ Len(unitOut.steps) = 1
              /\ unitOut.sv.session = None
              /\ unitOut.sv.http_ctx = unitOut.prior.http_ctx
              /\ unitOut.sv.session_ctx = unitOut.prior.session_ctx

\* C33 witness: the probe of an HTTP server of utils/server.py failed.
C33_Witness ==
    /\ HttpAttempt /\ unitIn.impl = "utils"
    /\ ProbeFailed
    /\ unitOut.sv = NewServer

\* The last connection attempt failed at one of its steps.
AttemptFailed == \E i \in 1..Len(unitOut.steps) : ~unitOut.steps[i].ok

\* C38: a session holds a transport handle only while connected.  After a
\* start() / connect() that failed at any step (probe, stream open, session
\* open, initialize) the session is None and every stream or session context
\* the object knows has been exited and released (its field is None again).
C38_FailedStartHoldsNothing ==
    (/\ Life /\ unitOut.started /\ unitIn.impl \in {"utils", "mcp_client"}
     /\ unitOut.prior.session = None
     /\ AttemptFailed)
    => /\ unitOut.sv.session = None
       /\ \A i \in 1..Len(Handles(unitIn.impl)) : unitOut.sv[Handles(unitIn.impl)[i]] = None

\* The number of "{" minus the number of "}" in text[i..j].
Depth(text, i, j) ==
    Cardinality({k \in i..j : text[k] = "{"}) - Cardinality({k \in i..j : text[k] = "}"})

\* The object the text holds: from its first "{" to the "}" that brings the
\* brace depth back to zero, when there is one.
MatchingSpan(text) ==
    LET opens == {i \in 1..Len(text) : text[i] = "{"}
        first == CHOOSE i \in opens : \A o \in opens : i <= o
        closes == {j \in 1..Len(text) : j > first /\ Depth(text, first, j) = 0}
    IN  IF opens = {} THEN NoSpan("none")
        ELSE IF closes = {} THEN NoSpan("unbalanced")
        ELSE Span(first, CHOOSE j \in closes : \A o \in closes : j <= o)

Extracted == unitOut.op = "args"

\* C34: the arguments extracted from an oracle reply are the JSON object that
\* starts at the first "{" of the arguments section and ends at its
\* brace-depth-matching "}", for every reply, nested objects and surrounding
\* commentary included, in both bots.
C34_ArgsAreTheBraceMatchedObject ==
    (Extracted /\ MatchingSpan(unitIn.text).kind = "span") =>
        /\ unitOut.elicitation = MatchingSpan(unitIn.text)
        /\ unitOut.slack_bot = MatchingSpan(unitIn.text)

\* The half of C34 that holds: the brace scan of slack_bot.py cuts out the
\* brace-matched object, and reports every text that has none.
SlackBotScanIsBraceMatched ==
    Extracted => unitOut.slack_bot = MatchingSpan(unitIn.text)

Interpreted == unitOut.op = "interpret"

LargeTemplates == {"defaults.system_interpret_large", "defaults.user_interpret_large"}

\* C35: result interpretation uses the large-result prompt templates exactly
\* when the raw result text is longer than the threshold (2000 characters
\* unless configured; a text of exactly the threshold is not large), for
\* every server.
C35_LargeTemplatesIffOverThreshold ==
    Interpreted =>
        ((unitOut.system_prompt \in LargeTemplates /\ unitOut.user_prompt \in LargeTemplates)
            <=> unitIn.len > ThresholdOf(unitIn.thresholds))

\* The part of C35 that holds: the size test itself, and the templates of a
\* server that has no prompts of its own.
LargeIffOverThreshold ==
    Interpreted =>
        /\ unitOut.is_large <=> unitIn.len > ThresholdOf(unitIn.thresholds)
        /\ unitIn.server_config = {} =>
              ((unitOut.system_prompt \in LargeTemplates /\ unitOut.user_prompt \in LargeTemplates)
                  <=> unitOut.is_large)

\* The started servers that report the tool and allow it.
Exposing(name) ==
    {s \in Servers : /\ srv[s].session # None
                     /\ name \in ReportedNames(s)
                     /\ ListAllows(allowed_tools[s], name)}

\* The first of them in the configured order.
FirstExposing(name) ==
    ServerOrder[CHOOSE i \in 1..Len(ServerOrder) :
                    /\ ServerOrder[i] \in Exposing(name)
                    /\ \A j \in 1..(i - 1) : ServerOrder[j] \notin Exposing(name)]

\* The servers the last call invoked a tool on.
InvokedOn == {i \in 1..Len(last.calls) : last.calls[i].method = "call_tool"}

\* C36: when several servers expose the same allowed tool name, one Execute
\* invokes the tool on exactly one server, the first in configured server
\* order whose tool list holds that allowed name, and on no other.
C36_ExecuteInvokesFirstExposingServer ==
    (/\ Handled /\ last.executed # << >>
     /\ HasAllowedTool(tools, last.executed[1].tool)
     /\ Cardinality(Exposing(last.executed[1].tool)) >= 2)
    => /\ Cardinality(InvokedOn) = 1
       /\ \A i \in InvokedOn :
             last.calls[i] = Call(FirstExposing(last.executed[1].tool), "call_tool",
                                  last.executed[1].tool)

\* A message handled by a bot whose catalog is empty.
NoCatalog == Handled /\ tools = << >>

\* C37: when no server connected (empty catalog) every utterance is still
\* answered, with a greeting / capability summary or with a refusal; the
\* oracle is not asked, no tool is executed or called on a server and no
\* pending clarification results.
C37_EmptyCatalogAnswersWithoutTools ==
    NoCatalog =>
        /\ last.say \in {<< "greeting" >>, << "help" >>, << "refusal" >>}
        /\ last.prompts = << >>
        /\ last.executed = << >> /\ last.calls = << >>
        /\ \A c \in Channels : pending_requests[c] = NoPending

\* C37 witness: with an empty catalog the bot of utils/slackbot.py answered
\* its second message, "help", with its capability summary.
C37_Witness ==
    /\ NoCatalog
    /\ last.route = << "intent" >>
    /\ last.say = << "help" >>
    /\ msgs = 2

IntentPathValidates ==
    (Handled /\ bot = "slackbot" /\ last.route[Len(last.route)] = "intent") =>
        \A i \in 1..Len(last.executed) :
            validate_tool_call(last.executed[i].tool, last.executed[i].args) = {}

\* The step is a message handled by the bot of utils/slack_bot.py.
SlackBotHandles == bot = "slack_bot" /\ msgs' = msgs + 1

====
